---- MODULE Spec2Model ----
(***************************************************************************)
(* CoreChain: the proof-of-work audit ledger (blockchain_core.py), its     *)
(* REST front end (fabric_api.py), the smart contracts                     *)
(* (smart_contracts.py) and the round-aggregation coordinator              *)
(* (grpc_server.py).                                                       *)
(*                                                                         *)
(* Python dicts are functions from field names to values, lists are        *)
(* sequences, hex strings are sequences of hex digits, datetime.now() is   *)
(* a logical clock read.  Fractions (weights, accuracy, loss, tokens) are   *)
(* held in thousandths.                                                    *)
(***************************************************************************)
EXTENDS Integers, Sequences, FiniteSets, TLC

\* ---------------------------------------------------------------- bounds
\* number of hex digits of a digest (SHA-256 has 64)
HashDigits == 3
\* largest difficulty a ledger is constructed with
MaxDifficulty == 1
\* add_transaction calls explored by the sequential ledger specification
MaxAccepted == 6
\* add_transaction calls explored together with persistence and tampering
MaxStored == 2
\* edits of the persisted file / of blocks in memory explored
MaxTamper == 1
\* coordinator calls (RegisterHospital, SubmitUpdate) explored
MaxCalls == 4
MaxClock == 9
MaxServed == 4
MaxPosted == 3
\* SubmitUpdate calls explored on the coordinator's worker threads
MaxThreaded == 3
\* REWARD_DISTRIBUTION transactions explored under the leaderboard
MaxRewarded == 4
\* transactions explored under the audit trail
MaxAudited == 4
\* training transactions explored under the training summary
MaxSummarised == 4
\* add_transaction calls explored between read operations
MaxQueried == 3
\* examples a Flower client trains on
MaxExamples == 6
\* updates buffered while the ledger service comes and goes
MaxOutage == 3
\* SubmitUpdate calls entered on the worker threads
MaxBuffered == 3
\* transactions admitted between mining calls
MaxMined == 5
\* layers of a list of weight arrays
MaxLayers == 2

\* ------------------------------------------------------ program constants
\* blockchain_core.py:110  auto-mine threshold of the pending pool
BatchThreshold == 5
\* grpc_server.py:157  MIN_CLIENTS default
MinClients == 2
\* grpc_server.py:211  FL_ROUNDS default
FLRounds == 10
\* encryption.py: values of a layer that are encrypted
SampleCap == 100
\* fractions (weights, accuracy, loss, tokens) are held in thousandths
Scale == 1000

VARIABLES
    chain,          \* Blockchain.chain: sequence of blocks
    pending,        \* Blockchain.pending_transactions
    difficulty,     \* Blockchain.difficulty
    clock,          \* reads of datetime.now() so far
    accepted,       \* history: transactions admitted by add_transaction, in order
    file,           \* NoValue, or Some(text of BLOCKCHAIN_FILE: the JSON of a list of block dicts)
    tampered,       \* history: number of edits made behind the ledger's back
    current_round,          \* ModelAggregationServicer.current_round
    registered_hospitals,   \* ModelAggregationServicer.registered_hospitals
    round_updates,          \* ModelAggregationServicer.round_updates
    global_model_weights,   \* ModelAggregationServicer.global_model_weights: NoValue or Some(layers)
    global_metrics,         \* ModelAggregationServicer.global_metrics
    emitted,        \* history: transactions handed to log_transaction, in order
    started,        \* history: rounds _aggregate_round was entered for, in order
    response,       \* what the last coordinator call answered
    request,        \* history: Some(the request) when the last call was a SubmitUpdate, else NoValue
    wpc,            \* per request handler of the ledger API: where it stands
    wblock,         \* per request handler: the new_block of its mine_pending_transactions
    running,        \* the ledger API process is up (between startup_event and shutdown_event)
    tpc,            \* per worker thread of the coordinator: where its SubmitUpdate stands
    tloc,           \* per worker thread: the locals of its SubmitUpdate / _aggregate_round
    served,         \* NoValue, or Some(the last GetGlobalModel / GetTrainingStatus answer)
    answer,         \* NoValue, or Some(the last read operation of the ledger and what it returned)
    computed,       \* history: the global model states written by aggregations that ran to current_round
    payout,         \* NoValue, or Some(the last RewardDistributor.execute call and what it did)
    codec,          \* an EncryptionManager: its keys, and the last encrypt/decrypt it ran
    succeeded,      \* history: the buffer entries of the SubmitUpdate calls answered with success, per round
    miner,          \* NoValue, or Some(a Block.mine_block call: the block at entry and now, where the loop stands)
    mined,          \* NoValue, or Some(the last mining call: who called, the ledger it found, its answer)
    verdict         \* NoValue, or Some(the last update validated, what execute did, len(chain) then)

workerVars == <<tpc, tloc, served, computed>>

coordVars == <<current_round, registered_hospitals, round_updates, global_model_weights,
               global_metrics, emitted, started, response, request, workerVars>>

callVars == <<codec, mined, miner, succeeded>>

apiVars == <<wpc, wblock, running, verdict, payout, answer, callVars>>

vars == <<chain, pending, difficulty, clock, accepted, file, tampered,
          current_round, registered_hospitals, round_updates, global_model_weights,
          global_metrics, emitted, started, response, request, wpc, wblock, running, verdict, payout,
          tpc, tloc, served, computed, answer, callVars>>

\* an optional value: NoValue is Python's None (or a missing file), Some(x) is x
NoValue == <<>>

Some(x) == <<x>>

Value(o) == o[1]

None == "None"

\* the outcome of a call that raised instead of answering
Raised == [raised |-> TRUE]

\* {} and d[k] = v for Python dicts
EmptyDict == [k \in {} |-> None]

DictSet(d, k, v) == [x \in DOMAIN d \cup {k} |-> IF x = k THEN v ELSE d[x]]

\* ------------------------------------------------------------- hashing
HashSpace == 16 ^ HashDigits

\* '0' * n
Zeros(n) == [i \in 1..n |-> 0]

\* s[:n]
Prefix(s, n) == SubSeq(s, 1, IF n < Len(s) THEN n ELSE Len(s))

\* hexdigest(): the digest as a string of HashDigits hex digits
HexDigest(n) == [i \in 1..HashDigits |-> (n \div (16 ^ (HashDigits - i))) % 16]

\* value of a hex string (previous_hash is '0' for genesis, a digest otherwise)
RECURSIVE HexValue(_)
HexValue(s) == IF s = <<>> THEN 0 ELSE (HexValue(SubSeq(s, 1, Len(s) - 1)) * 16 + s[Len(s)]) % HashSpace

Absorb(h, x) == (h * 31 + x + 1) % HashSpace

StrCode(s) ==
    CASE s = "GENESIS" -> 1
      [] s = "HOSPITAL_REGISTRATION" -> 2
      [] s = "MODEL_UPDATE" -> 3
      [] s = "MODEL_AGGREGATION" -> 4
      [] s = "REWARD_DISTRIBUTION" -> 5
      [] s = "hospital_1" -> 6
      [] s = "hospital_2" -> 7
      [] s = "hospital_3" -> 8
      [] OTHER -> 9

\* contribution of key k (the i-th key in sort_keys order) to a serialized dict
KeyCode(tx, k, i) ==
    IF k \in DOMAIN tx
    THEN (2 * i + 1) * (IF k \in {"type", "hospital_id", "hospital_name", "message"} THEN StrCode(tx[k]) ELSE tx[k]) + i
    ELSE 0

\* json.dumps(tx, sort_keys=True) of one transaction dict, as a number
TxCode(tx) ==
    ( KeyCode(tx, "accuracy", 1) + KeyCode(tx, "dataset_size", 2)
    + KeyCode(tx, "global_accuracy", 3) + KeyCode(tx, "global_loss", 4)
    + KeyCode(tx, "hospital_id", 5) + KeyCode(tx, "hospital_name", 6)
    + KeyCode(tx, "loss", 7) + KeyCode(tx, "message", 8)
    + KeyCode(tx, "participants", 9) + KeyCode(tx, "reward_tokens", 10)
    + KeyCode(tx, "round", 11) + KeyCode(tx, "samples_contributed", 12)
    + KeyCode(tx, "samples_trained", 13) + KeyCode(tx, "timestamp", 14)
    + KeyCode(tx, "total_samples", 15) + KeyCode(tx, "type", 16) ) % HashSpace

RECURSIVE TxsCode(_)
TxsCode(txs) ==
    IF txs = <<>> THEN 0
    ELSE Absorb(TxsCode(SubSeq(txs, 1, Len(txs) - 1)), TxCode(txs[Len(txs)]))

\* the serialized block without its nonce
BaseDigest(b) ==
    Absorb(Absorb(Absorb(Absorb(Absorb(0, b.index), b.timestamp), TxsCode(b.transactions)),
                  Len(b.previous_hash)), HexValue(b.previous_hash))

\* every nonce step moves the last digit a difficulty target can reach
Stride == 16 ^ (HashDigits - MaxDifficulty) + 1

NonceDigest(h, n) == HexDigest((h * 16 + n * Stride) % HashSpace)

\* Block.calculate_hash: digest of the serialized index, nonce, previous_hash,
\* timestamp and transactions (the stored hash is not part of the input)
calculate_hash(b) == NonceDigest(BaseDigest(b), b.nonce)

\* Block.__init__: hash = calculate_hash() of the fields given
Block(index, timestamp, transactions, previous_hash, nonce) ==
    LET b == [index |-> index, timestamp |-> timestamp, transactions |-> transactions,
              previous_hash |-> previous_hash, nonce |-> nonce, hash |-> <<>>]
    IN  [b EXCEPT !.hash = calculate_hash(b)]

\* hash[:difficulty] == '0' * difficulty
MeetsTarget(hash, d) == Prefix(hash, d) = Zeros(d)

\* the nonce at which the loop of Block.mine_block stops when it starts after
\* nonce `from`: the first one whose digest meets the target (searched in
\* windows of 16 nonces)
RECURSIVE FirstNonce(_, _, _)
FirstNonce(h, from, d) ==
    LET W == {n \in (from + 1)..(from + 16) : MeetsTarget(NonceDigest(h, n), d)}
    IN  IF W # {} THEN CHOOSE n \in W : \A m \in W : n <= m
        ELSE FirstNonce(h, from + 16, d)

\* the block as the loop of mine_block leaves it at nonce n
MinedAtBad(b, h, n) == [b EXCEPT !.nonce = n]

MinedAt(b, h, n) == [b EXCEPT !.nonce = n, !.hash = NonceDigest(h, n)]

\* Block.mine_block: while hash[:difficulty] != target: nonce += 1; hash = calculate_hash()
mine_block(b, d) ==
    IF MeetsTarget(b.hash, d) THEN b
    ELSE MinedAt(b, BaseDigest(b), FirstNonce(BaseDigest(b), b.nonce, d))

\* ------------------------------------------------------------- ledger
\* Blockchain._create_genesis_block; now is the clock before the call
GenesisBlock(now, d) ==
    mine_block(Block(0, now + 1,
                     << [type |-> "GENESIS", message |-> "genesis", timestamp |-> now + 2] >>,
                     <<0>>, 0), d)

get_latest_block(c) == c[Len(c)]

\* add_transaction, the stamping of a missing timestamp
Stamp(tx, now) ==
    IF "timestamp" \notin DOMAIN tx THEN tx @@ ("timestamp" :> now + 1) ELSE tx

StampTicks(tx) == IF "timestamp" \notin DOMAIN tx THEN 1 ELSE 0

NewBlockBad(c, p, now, d) ==
    mine_block(Block(Len(c) + 1, now + 1, p, get_latest_block(c).hash, 0), d)

\* the block mine_pending_transactions builds from pool p on chain c
NewBlock(c, p, now, d) ==
    mine_block(Block(Len(c), now + 1, p, get_latest_block(c).hash, 0), d)

\* the auto-mine condition of add_transaction
PoolFullBad(p) == Len(p) > BatchThreshold

PoolFull(p) == Len(p) >= BatchThreshold

\* Blockchain.is_chain_valid: the loop over blocks 1..len-1, first failure returns False
RECURSIVE ValidFrom(_, _, _)
ValidFrom(c, d, i) ==
    IF i > Len(c) THEN TRUE
    ELSE IF c[i].hash # calculate_hash(c[i]) THEN FALSE
    ELSE IF c[i].previous_hash # c[i - 1].hash THEN FALSE
    ELSE IF ~MeetsTarget(c[i].hash, d) THEN FALSE
    ELSE ValidFrom(c, d, i + 1)

is_chain_valid_bad(c, d) == ValidFrom(c, d, 3)

is_chain_valid(c, d) == ValidFrom(c, d, 2)

\* Block.to_dict
to_dict(b) ==
    [index |-> b.index, timestamp |-> b.timestamp, transactions |-> b.transactions,
     previous_hash |-> b.previous_hash, nonce |-> b.nonce, hash |-> b.hash]

\* Blockchain.get_chain
get_chain(c) == [i \in 1..Len(c) |-> to_dict(c[i])]

\* json.dump of a transaction dict: its members as (key, value) pairs
json_dump_tx(tx) == { <<k, tx[k]>> : k \in DOMAIN tx }

\* json.load of a transaction object
json_load_tx(m) == [k \in { p[1] : p \in m } |-> (CHOOSE p \in m : p[1] = k)[2]]

\* json.dump(self.get_chain()): per block dict the members in the order
\* to_dict writes them, the transactions as a list of objects
json_dump(data) ==
    [i \in 1..Len(data) |->
        << data[i].index, data[i].timestamp,
           [j \in 1..Len(data[i].transactions) |-> json_dump_tx(data[i].transactions[j])],
           data[i].previous_hash, data[i].nonce, data[i].hash >>]

\* json.load(f): the list of block dicts of a file text
json_load(text) ==
    [i \in 1..Len(text) |->
        [index |-> text[i][1], timestamp |-> text[i][2],
         transactions |-> [j \in 1..Len(text[i][3]) |-> json_load_tx(text[i][3][j])],
         previous_hash |-> text[i][4], nonce |-> text[i][5], hash |-> text[i][6]]]

\* ------------------------------------------------------------- inputs
\* transactions handed to add_transaction
TxInputs ==
    { [type |-> "HOSPITAL_REGISTRATION", hospital_id |-> "hospital_1"],
      [type |-> "MODEL_UPDATE", hospital_id |-> "hospital_1", round |-> 1,
       accuracy |-> 850, samples_trained |-> 100, timestamp |-> 0] }

\* ------------------------------------------------------------- queries
\* the transactions of the blocks of chain c, in block order, each with the
\* block_index and block_hash the query methods attach
RECURSIVE Flatten(_)
Flatten(c) ==
    IF c = <<>> THEN <<>>
    ELSE Flatten(SubSeq(c, 1, Len(c) - 1))
         \o [j \in 1..Len(c[Len(c)].transactions) |->
                ("block_index" :> c[Len(c)].index) @@ ("block_hash" :> c[Len(c)].hash)
                @@ c[Len(c)].transactions[j]]

\* tx.get(k) == v
GetIs(tx, k, v) == k \in DOMAIN tx /\ tx[k] = v

\* Blockchain.get_transactions_by_type
get_transactions_by_type(c, tx_type) == SelectSeq(Flatten(c), LAMBDA tx : GetIs(tx, "type", tx_type))

\* Blockchain.get_transactions_by_hospital
get_transactions_by_hospital(c, h) == SelectSeq(Flatten(c), LAMBDA tx : GetIs(tx, "hospital_id", h))

\* Blockchain.get_block
get_block(c, index) ==
    IF 0 <= index /\ index < Len(c) THEN Some(to_dict(c[index + 1])) ELSE NoValue

\* Blockchain.get_stats on a ledger with chain c and pool p
get_stats(c, p, d) ==
    LET txs == Flatten(c)
        types == { IF "type" \in DOMAIN txs[i] THEN txs[i].type ELSE "UNKNOWN" : i \in 1..Len(txs) }
    IN  [total_blocks |-> Len(c),
         total_transactions |-> Len(txs),
         pending_transactions |-> Len(p),
         difficulty |-> d,
         is_valid |-> is_chain_valid(c, d),
         transaction_types |->
             [t \in types |-> Len(SelectSeq(txs, LAMBDA tx : (IF "type" \in DOMAIN tx THEN tx.type ELSE "UNKNOWN") = t))],
         latest_block_hash |-> get_latest_block(c).hash]

\* tx.get(k, default)
Get(tx, k, default) == IF k \in DOMAIN tx THEN tx[k] ELSE default

RECURSIVE SumOf(_, _, _)
\* sum(tx.get(k, 0) for tx in txs)
SumOf(txs, k, n) == IF n = 0 THEN 0 ELSE SumOf(txs, k, n - 1) + Get(txs[n], k, 0)

\* Blockchain.get_hospital_rewards
get_hospital_rewards(c, h) ==
    LET reward_txs == SelectSeq(get_transactions_by_hospital(c, h),
                                LAMBDA tx : GetIs(tx, "type", "REWARD_DISTRIBUTION"))
    IN  SumOf(reward_txs, "reward_tokens", Len(reward_txs))

\* sorted(seq, key=lambda x: x.get(field, default), reverse=True): a stable
\* sort, so entries of equal key keep their order
RECURSIVE SortedDesc(_, _, _)
SortedDesc(seq, field, default) ==
    IF seq = <<>> THEN <<>>
    ELSE LET rest == SortedDesc(SubSeq(seq, 1, Len(seq) - 1), field, default)
             x == seq[Len(seq)]
             n == Cardinality({ i \in 1..Len(rest) : Get(rest[i], field, default) >= Get(x, field, default) })
         IN  SubSeq(rest, 1, n) \o << x >> \o SubSeq(rest, n + 1, Len(rest))

\* ------------------------------------------------------------- smart contracts
RequiredFields == << "hospital_id", "round", "accuracy", "samples_trained" >>

\* any(reg['hospital_id'] == hospital_id for reg in registrations): "yes", "no",
\* or Raised when a registration without hospital_id is met before a match
RECURSIVE AnyRegistered(_, _, _)
AnyRegistered(regs, h, i) ==
    IF i > Len(regs) THEN "no"
    ELSE IF "hospital_id" \notin DOMAIN regs[i] THEN "raised"
    ELSE IF regs[i].hospital_id = h THEN "yes"
    ELSE AnyRegistered(regs, h, i + 1)

\* the transactions the duplicate check of the validator finds
ExistingUpdates(c, h, r) ==
    SelectSeq(get_transactions_by_hospital(c, h),
              LAMBDA tx : GetIs(tx, "type", "MODEL_UPDATE") /\ GetIs(tx, "round", r))

\* for field in required_fields: if field not in update_data
RECURSIVE FirstMissing(_, _)
FirstMissing(u, i) ==
    IF RequiredFields[i] \notin DOMAIN u THEN RequiredFields[i] ELSE FirstMissing(u, i + 1)

Verdict(ok, msg) == [raised |-> FALSE, is_valid |-> ok, message |-> msg]

\* ModelUpdateValidator.execute(update_data) on a ledger with chain c:
\* the (is_valid, message) pair, or the KeyError that escapes
execute(u, c) ==
    IF \E i \in 1..Len(RequiredFields) : RequiredFields[i] \notin DOMAIN u
    THEN Verdict(FALSE, "Missing required field: " \o FirstMissing(u, 1))
    ELSE LET reg == AnyRegistered(get_transactions_by_type(c, "HOSPITAL_REGISTRATION"), u.hospital_id, 1)
         IN  IF reg = "raised" THEN [raised |-> TRUE, is_valid |-> FALSE, message |-> "KeyError"]
             ELSE IF reg = "no" THEN Verdict(FALSE, "Hospital " \o u.hospital_id \o " not registered")
             ELSE IF ~(0 <= u.accuracy /\ u.accuracy <= Scale) THEN Verdict(FALSE, "Invalid accuracy")
             ELSE IF u.samples_trained <= 0 THEN Verdict(FALSE, "Invalid samples count")
             ELSE IF ExistingUpdates(c, u.hospital_id, u.round) # <<>>
                  THEN Verdict(FALSE, "already submitted update")
             ELSE Verdict(TRUE, "Validation successful")

RECURSIVE GCD(_, _)
GCD(a, b) == IF b = 0 THEN a ELSE GCD(b, a % b)

\* floats are held as exact fractions <<numerator, denominator>> in lowest
\* terms (numerator >= 0, denominator > 0)
Frac(n, d) == <<n \div GCD(n, d), d \div GCD(n, d)>>

FracAdd(a, b) == Frac(a[1] * b[2] + b[1] * a[2], a[2] * b[2])

FracMul(a, b) == Frac(a[1] * b[1], a[2] * b[2])

\* round(x, 2) of the fraction x, in hundredths, ties to even
Round2(x) ==
    LET n == 100 * x[1]
        q == n \div x[2]
        r == n % x[2]
    IN  IF 2 * r < x[2] THEN q
        ELSE IF 2 * r > x[2] THEN q + 1
        ELSE IF q % 2 = 0 THEN q ELSE q + 1

QualityMultiplierBad(accuracy) == IF accuracy >= 900 THEN Frac(12, 10) ELSE Frac(1, 1)

\* if accuracy > 0.9: reward *= 1.2
QualityMultiplier(accuracy) == IF accuracy > 900 THEN Frac(12, 10) ELSE Frac(1, 1)

\* RewardDistributor.execute(hospital_id, round_num, accuracy,
\* samples_contributed, total_samples), accuracy in thousandths: the reward
\* in hundredths of a token, or the UnboundLocalError of the log line, which
\* reads sample_bonus although total_samples <= 0 left it unassigned
RewardDistributor_execute(hospital_id, round_num, accuracy, samples_contributed, total_samples) ==
    LET base == Frac(10, 1)
        accuracy_bonus == Frac(accuracy * 5, Scale)
        with_accuracy == FracAdd(base, accuracy_bonus)
    IN  IF total_samples > 0
        THEN LET sample_bonus == Frac(samples_contributed * 5, total_samples)
                 reward == FracMul(FracAdd(with_accuracy, sample_bonus), QualityMultiplier(accuracy))
             IN  [raised |-> FALSE, reward |-> Round2(reward)]
        ELSE [raised |-> TRUE, reward |-> 0]

\* the keys of hospital_rewards in insertion order: the hospital_id (None
\* when absent) of each reward transaction, at its first occurrence
RECURSIVE RewardedHospitals(_)
RewardedHospitals(txs) ==
    IF txs = <<>> THEN <<>>
    ELSE LET ids == RewardedHospitals(SubSeq(txs, 1, Len(txs) - 1))
             h == Get(txs[Len(txs)], "hospital_id", None)
         IN  IF \E i \in 1..Len(ids) : ids[i] = h THEN ids ELSE Append(ids, h)

\* get_leaderboard: the entry accumulated for hospital h, with its averages
LeaderboardEntry(reward_txs, h) ==
    LET mine == SelectSeq(reward_txs, LAMBDA tx : Get(tx, "hospital_id", None) = h)
        rounds == Len(mine)
        total_rewards == SumOf(mine, "reward_tokens", rounds)
        total_accuracy == SumOf(mine, "accuracy", rounds)
    IN  [hospital_id |-> h, total_rewards |-> total_rewards, rounds_participated |-> rounds,
         total_accuracy |-> total_accuracy,
         total_samples |-> SumOf(mine, "samples_contributed", rounds),
         avg_accuracy |-> Frac(total_accuracy, rounds),
         avg_reward_per_round |-> Frac(total_rewards, rounds)]

ByTotalRewardsBad(entries) == entries

\* sorted(hospital_rewards.values(), key=lambda x: x['total_rewards'], reverse=True)
ByTotalRewards(entries) == SortedDesc(entries, "total_rewards", 0)

\* RewardDistributor.get_leaderboard on a ledger with chain c
get_leaderboard(c) ==
    LET reward_txs == get_transactions_by_type(c, "REWARD_DISTRIBUTION")
        ids == RewardedHospitals(reward_txs)
    IN  ByTotalRewards([i \in 1..Len(ids) |-> LeaderboardEntry(reward_txs, ids[i])])

\* get_audit_trail: all_txs, every transaction of every block of the chain
\* with the block_index, block_hash and block_timestamp of its block
RECURSIVE AllTxs(_)
AllTxs(c) ==
    IF c = <<>> THEN <<>>
    ELSE AllTxs(SubSeq(c, 1, Len(c) - 1))
         \o [j \in 1..Len(c[Len(c)].transactions) |->
                ("block_index" :> c[Len(c)].index) @@ ("block_hash" :> c[Len(c)].hash)
                @@ ("block_timestamp" :> c[Len(c)].timestamp) @@ c[Len(c)].transactions[j]]

\* `if hospital_id:` / `if event_type:`: None and the empty string are no filter
Truthy(x) == x # None /\ x # ""

SliceBad(seq, limit) == seq

\* seq[:limit]
Slice(seq, limit) ==
    IF limit >= 0 THEN Prefix(seq, limit)
    ELSE SubSeq(seq, 1, IF Len(seq) + limit > 0 THEN Len(seq) + limit ELSE 0)

\* AuditLogger.get_audit_trail(hospital_id, event_type, limit) on a ledger
\* with chain c; an absent timestamp sorts as '' does, below every timestamp
get_audit_trail(c, hospital_id, event_type, limit) ==
    LET all_txs == AllTxs(c)
        by_hospital == IF Truthy(hospital_id)
                       THEN SelectSeq(all_txs, LAMBDA tx : GetIs(tx, "hospital_id", hospital_id))
                       ELSE all_txs
        by_type == IF Truthy(event_type)
                   THEN SelectSeq(by_hospital, LAMBDA tx : GetIs(tx, "type", event_type))
                   ELSE by_hospital
    IN  Slice(SortedDesc(by_type, "timestamp", -1), limit)

RECURSIVE MaxOf(_, _, _)
\* max(tx[k] for tx in txs)
MaxOf(txs, k, n) ==
    IF n = 1 THEN txs[1][k]
    ELSE IF txs[n][k] > MaxOf(txs, k, n - 1) THEN txs[n][k] ELSE MaxOf(txs, k, n - 1)

\* AuditLogger.get_training_summary on a ledger with chain c: the summary
\* dict, or the KeyError of tx['hospital_id'] on a MODEL_UPDATE without one
get_training_summary(c) ==
    LET model_updates == get_transactions_by_type(c, "MODEL_UPDATE")
        aggregations == get_transactions_by_type(c, "MODEL_AGGREGATION")
        accuracies == SelectSeq(model_updates, LAMBDA tx : "accuracy" \in DOMAIN tx)
        latest_aggregation == IF aggregations # <<>> THEN aggregations[Len(aggregations)] ELSE EmptyDict
    IN  IF model_updates = <<>>
        THEN [raised |-> FALSE, total_rounds |-> 0, total_updates |-> 0,
              participating_hospitals |-> 0, avg_accuracy |-> Frac(0, 1), best_accuracy |-> 0]
        ELSE IF \E i \in 1..Len(model_updates) : "hospital_id" \notin DOMAIN model_updates[i]
        THEN [raised |-> TRUE]
        ELSE [raised |-> FALSE,
              total_rounds |-> Len(aggregations),
              total_updates |-> Len(model_updates),
              participating_hospitals |->
                  Cardinality({ model_updates[i].hospital_id : i \in 1..Len(model_updates) }),
              avg_accuracy |-> IF accuracies # <<>>
                               THEN Frac(SumOf(accuracies, "accuracy", Len(accuracies)), Len(accuracies))
                               ELSE Frac(0, 1),
              best_accuracy |-> IF accuracies # <<>> THEN MaxOf(accuracies, "accuracy", Len(accuracies)) ELSE 0,
              latest_global_accuracy |-> Get(latest_aggregation, "global_accuracy", 0),
              latest_round |-> Get(latest_aggregation, "round", 0)]

\* update records handed to the validator
UpdateInputs ==
    { [hospital_id |-> "hospital_1", round |-> 1, accuracy |-> 850, samples_trained |-> 100],
      [hospital_id |-> "hospital_1", round |-> 1, accuracy |-> 1500, samples_trained |-> 100],
      [hospital_id |-> "hospital_1", round |-> 2, accuracy |-> 850, samples_trained |-> 100],
      [hospital_id |-> "hospital_1", round |-> 1, accuracy |-> 850, samples_trained |-> 0],
      [hospital_id |-> "hospital_2", round |-> 1, accuracy |-> 1500, samples_trained |-> 0],
      [hospital_id |-> "hospital_1", round |-> 1, accuracy |-> 850] }

\* ------------------------------------------------------------- ledger state
\* the part of a Blockchain object that add_transaction and
\* mine_pending_transactions read and write
Ledger == [chain |-> chain, pending |-> pending, clock |-> clock, accepted |-> accepted]

MinedBad(L, d) ==
    IF L.pending = <<>> THEN L
    ELSE [L EXCEPT !.chain = << L.chain[1], NewBlock(L.chain, L.pending, L.clock, d) >>,
                   !.pending = <<>>,
                   !.clock = L.clock + 1]

MinedEmptyBad(L, d) ==
    [L EXCEPT !.chain = Append(L.chain, NewBlock(L.chain, L.pending, L.clock, d)),
              !.pending = <<>>,
              !.clock = L.clock + 1]

\* Blockchain.mine_pending_transactions() on ledger L
Mined(L, d) ==
    IF L.pending = <<>> THEN L
    ELSE [L EXCEPT !.chain = Append(L.chain, NewBlock(L.chain, L.pending, L.clock, d)),
                   !.pending = <<>>,
                   !.clock = L.clock + 1]

AddedBad(L, tx, d) ==
    LET t == Stamp(tx, L.clock)
        A == [L EXCEPT !.pending = << t >> \o L.pending,
                       !.accepted = Append(L.accepted, t),
                       !.clock = L.clock + StampTicks(tx)]
    IN  IF PoolFull(A.pending) THEN Mined(A, d) ELSE A

\* Blockchain.add_transaction(tx) on ledger L, with the mining it triggers
Added(L, tx, d) ==
    LET t == Stamp(tx, L.clock)
        A == [L EXCEPT !.pending = Append(L.pending, t),
                       !.accepted = Append(L.accepted, t),
                       !.clock = L.clock + StampTicks(tx)]
    IN  IF PoolFull(A.pending) THEN Mined(A, d) ELSE A

SetLedger(L) ==
    /\ chain' = L.chain
    /\ pending' = L.pending
    /\ clock' = L.clock
    /\ accepted' = L.accepted

\* ------------------------------------------------------------- coordinator

Hospitals == {"hospital_1", "hospital_2", "hospital_3"}

\* hospitals that call RegisterHospital
Registering == {"hospital_1", "hospital_2"}

\* bytes that are not a pickled list of layer records with their fields
Garbage == << [sample_size |-> 0] >>

\* EncryptionManager.encrypt_weights: one record per layer
encrypt_weights(w) == [i \in 1..Len(w) |-> [full_weights |-> w[i], sample_size |-> 1]]

\* EncryptionManager.decrypt_weights raises on a payload whose records lack
\* the fields it reads
DecryptRaises(bytes) == \E i \in 1..Len(bytes) : "full_weights" \notin DOMAIN bytes[i]

decrypt_weights(bytes) == [i \in 1..Len(bytes) |-> bytes[i].full_weights]

\* SubmitUpdate requests hospitals send
Requests ==
    { [hospital_id |-> "hospital_1", round_number |-> 1, encrypted_weights |-> encrypt_weights(<<2000>>),
       samples_trained |-> 100, local_accuracy |-> 850, local_loss |-> 400, timestamp |-> 0],
      [hospital_id |-> "hospital_2", round_number |-> 1, encrypted_weights |-> encrypt_weights(<<4000>>),
       samples_trained |-> 300, local_accuracy |-> 900, local_loss |-> 300, timestamp |-> 0],
      [hospital_id |-> "hospital_1", round_number |-> 2, encrypted_weights |-> encrypt_weights(<<2000>>),
       samples_trained |-> 100, local_accuracy |-> 950, local_loss |-> 400, timestamp |-> 0],
      [hospital_id |-> "hospital_3", round_number |-> 1, encrypted_weights |-> encrypt_weights(<<2000>>),
       samples_trained |-> 0, local_accuracy |-> 1500, local_loss |-> 400, timestamp |-> 0],
      [hospital_id |-> "hospital_2", round_number |-> 2, encrypted_weights |-> encrypt_weights(<<4000, 1000>>),
       samples_trained |-> 300, local_accuracy |-> 900, local_loss |-> 300, timestamp |-> 0],
      [hospital_id |-> "hospital_2", round_number |-> 1, encrypted_weights |-> Garbage,
       samples_trained |-> 300, local_accuracy |-> 900, local_loss |-> 300, timestamp |-> 0] }

\* BlockchainClient.log_transaction -> POST /api/blockchain/transaction ->
\* submit_transaction: blockchain.add_transaction({'type': type, **data})
Logged(L, tx, d) == Added(L, tx, d)

RECURSIVE Sum(_, _)
Sum(f, n) == IF n = 0 THEN 0 ELSE Sum(f, n - 1) + f[n]

\* sum(u['samples_trained'] for u in updates)
TotalSamples(updates) == Sum([i \in 1..Len(updates) |-> updates[i].samples_trained], Len(updates))

WeightedBad(values, updates, total) ==
    Sum([i \in 1..Len(updates) |-> values[i]], Len(updates)) \div Len(updates)

\* sum of value * samples / total_samples over the updates, in thousandths
Weighted(values, updates, total) ==
    Sum([i \in 1..Len(updates) |-> values[i] * updates[i].samples_trained], Len(updates)) \div total

\* _aggregate_round: layer l of the aggregate
AggregatedLayer(updates, l, total) ==
    Weighted([i \in 1..Len(updates) |-> updates[i].weights[l]], updates, total)

\* where _aggregate_round raises, if it does:
\*   "weights": before any assignment (division by total_samples = 0 or a
\*              missing layer in some update),
\*   "metrics": after global_model_weights was assigned (no layers, total 0)
AggregateRaises(updates) ==
    LET total == TotalSamples(updates)
        layers == Len(updates[1].weights)
    IN  IF layers > 0 /\ (total = 0 \/ \E i \in 1..Len(updates) : Len(updates[i].weights) < layers)
        THEN "weights"
        ELSE IF total = 0 THEN "metrics" ELSE None

\* _distribute_rewards: base_reward + accuracy * 5 + samples / total * 5
RewardTokens(u, total) == 10 * Scale + u.local_accuracy * 5 + (u.samples_trained * 5 * Scale) \div total

\* the quorum test of SubmitUpdate
QuorumBad(n) == n > MinClients

Quorum(n) == n >= MinClients

\* worker threads of the gRPC server (a pool of 10 in serve())
Workers == {"t1", "t2"}

\* the locals of a worker that is not inside a call
NoLocals == [round |-> 0, participants |-> 0, tx_hash |-> <<>>, total |-> 0,
             weights |-> <<>>, accuracy |-> 0, loss |-> 0]

CoordInit ==
    /\ tpc = [t \in Workers |-> "idle"]
    /\ tloc = [t \in Workers |-> NoLocals]
    /\ served = NoValue
    /\ computed = {}
    /\ current_round = 0
    /\ registered_hospitals = EmptyDict
    /\ round_updates = EmptyDict
    /\ global_model_weights = NoValue
    /\ global_metrics = [accuracy |-> 0, loss |-> 0, total_samples |-> 0]
    /\ emitted = <<>>
    /\ started = <<>>
    /\ response = [none |-> TRUE]
    /\ request = NoValue

LedgerInit ==
    /\ difficulty \in 0..MaxDifficulty
    /\ chain = << GenesisBlock(0, difficulty) >>
    /\ pending = <<>>
    /\ clock = 2
    /\ accepted = <<>>
    /\ file = NoValue
    /\ tampered = 0

\* request handlers of the ledger API that can be in flight together
Handlers == {"h1", "h2"}

ApiInit ==
    /\ running = TRUE
    /\ verdict = NoValue
    /\ payout = NoValue
    /\ answer = NoValue
    /\ codec = [public_key |-> NoValue, private_key |-> NoValue, out |-> NoValue]
    /\ mined = NoValue
    /\ miner = NoValue
    /\ succeeded = EmptyDict
    /\ wpc = [w \in Handlers |-> "idle"]
    /\ wblock = [w \in Handlers |-> NoValue]

Init == LedgerInit /\ CoordInit /\ ApiInit

\* ------------------------------------------------------------- ledger actions
\* Blockchain.add_transaction(tx), with the mine_pending_transactions it calls
add_transaction(tx) ==
    /\ SetLedger(Added(Ledger, tx, difficulty))
    /\ UNCHANGED <<difficulty, file, tampered>>
    /\ UNCHANGED coordVars
    /\ UNCHANGED apiVars

AddTransaction ==
    /\ Len(accepted) < MaxAccepted
    /\ \E tx \in TxInputs : add_transaction(tx)

\* Blockchain.mine_pending_transactions()
mine_pending_transactions ==
    /\ SetLedger(Mined(Ledger, difficulty))
    /\ UNCHANGED <<difficulty, file, tampered>>
    /\ UNCHANGED coordVars
    /\ UNCHANGED apiVars

Next ==
    \/ AddTransaction
    \/ mine_pending_transactions

Spec == Init /\ [][Next]_vars


\* ------------------------------------------------------------- coordinator actions
\* add_transaction's return value: the digest of the serialized transaction
TxHash(tx) == HexDigest(TxCode(tx))

\* one log_transaction call of the coordinator for a transaction whose
\* timestamp is datetime.now(): S is the ledger and the history of emissions
EmitNow(S, tx) ==
    LET t == tx @@ ("timestamp" :> S.ledger.clock + 1)
    IN  [ledger |-> Logged([S.ledger EXCEPT !.clock = @ + 1], t, difficulty),
         emitted |-> Append(S.emitted, t)]

RECURSIVE EmitAllNow(_, _)
EmitAllNow(S, txs) ==
    IF txs = <<>> THEN S
    ELSE EmitNow(EmitAllNow(S, SubSeq(txs, 1, Len(txs) - 1)), txs[Len(txs)])

\* __init__: public_key_str of the keypair generated once at construction
public_key_str == "public_key"

StoreHospitalBad(d, h, info) == DictSet(d, h \o "@" \o ToString(info.registered_at), info)

\* self.registered_hospitals[hospital_id] = {...}
StoreHospital(d, h, info) == DictSet(d, h, info)

\* RegisterHospital(request)
RegisterHospital(h) ==
    LET S == EmitNow([ledger |-> [Ledger EXCEPT !.clock = @ + 1], emitted |-> emitted],
                     [type |-> "HOSPITAL_REGISTRATION", hospital_id |-> h,
                      hospital_name |-> "name", dataset_size |-> 1500])
    IN  /\ registered_hospitals' =
              StoreHospital(registered_hospitals, h,
                            [hospital_id |-> h, hospital_name |-> "name", dataset_size |-> 1500,
                             dataset_type |-> "type", registered_at |-> clock + 1])
        /\ SetLedger(S.ledger)
        /\ emitted' = S.emitted
        /\ response' = [success |-> TRUE, public_key |-> public_key_str]
        /\ request' = NoValue
        /\ UNCHANGED <<current_round, round_updates, global_model_weights, global_metrics, started>>
        /\ UNCHANGED <<difficulty, file, tampered>>
    /\ UNCHANGED apiVars
    /\ UNCHANGED workerVars

\* the buffer entry SubmitUpdate appends
UpdateOf(req) ==
    [hospital_id |-> req.hospital_id, weights |-> decrypt_weights(req.encrypted_weights),
     samples_trained |-> req.samples_trained, local_accuracy |-> req.local_accuracy,
     local_loss |-> req.local_loss, timestamp |-> req.timestamp]

\* the MODEL_UPDATE transaction SubmitUpdate logs
UpdateTx(req) ==
    [type |-> "MODEL_UPDATE", hospital_id |-> req.hospital_id, round |-> req.round_number,
     accuracy |-> req.local_accuracy, loss |-> req.local_loss,
     samples_trained |-> req.samples_trained, timestamp |-> req.timestamp]

\* the MODEL_AGGREGATION and REWARD_DISTRIBUTION transactions of one
\* aggregation, before their timestamps
AggregationTxs(r, updates) ==
    LET total == TotalSamples(updates)
        acc == Weighted([i \in 1..Len(updates) |-> updates[i].local_accuracy], updates, total)
        loss == Weighted([i \in 1..Len(updates) |-> updates[i].local_loss], updates, total)
    IN  << [type |-> "MODEL_AGGREGATION", round |-> r, global_accuracy |-> acc,
            global_loss |-> loss, participants |-> Len(updates), total_samples |-> total] >>
        \o [i \in 1..Len(updates) |->
               [type |-> "REWARD_DISTRIBUTION", hospital_id |-> updates[i].hospital_id,
                round |-> r, reward_tokens |-> RewardTokens(updates[i], total),
                accuracy |-> updates[i].local_accuracy,
                samples_contributed |-> updates[i].samples_trained]]

\* _aggregate_round(round_number) with _distribute_rewards, entered with
\* ledger and emissions S; raises where AggregateRaises says
AggregateRound(r, updates, S) ==
    LET raises == AggregateRaises(updates)
        total == TotalSamples(updates)
        T == EmitAllNow(S, AggregationTxs(r, updates))
    IN  /\ started' = Append(started, r)
        /\ IF raises = "weights"
           THEN /\ UNCHANGED <<global_model_weights, global_metrics, current_round>>
                /\ SetLedger(S.ledger)
                /\ emitted' = S.emitted
                /\ response' = Raised
           ELSE IF raises = "metrics"
           THEN /\ global_model_weights' = Some(<<>>)
                /\ UNCHANGED <<global_metrics, current_round>>
                /\ SetLedger(S.ledger)
                /\ emitted' = S.emitted
                /\ response' = Raised
           ELSE /\ global_model_weights' =
                      Some([l \in 1..Len(updates[1].weights) |-> AggregatedLayer(updates, l, total)])
                /\ global_metrics' =
                      [accuracy |-> Weighted([i \in 1..Len(updates) |-> updates[i].local_accuracy], updates, total),
                       loss |-> Weighted([i \in 1..Len(updates) |-> updates[i].local_loss], updates, total),
                       total_samples |-> total]
                /\ current_round' = r
                /\ SetLedger(T.ledger)
                /\ emitted' = T.emitted
                /\ response' = [success |-> TRUE, current_round |-> r,
                                total_participants |-> Len(updates),
                                transaction_hash |-> TxHash(S.emitted[Len(S.emitted)])]

DecryptionFailedBad(req) ==
    LET S == [ledger |-> Logged(Ledger, UpdateTx(req), difficulty),
              emitted |-> Append(emitted, UpdateTx(req))]
    IN  /\ response' = [success |-> FALSE, current_round |-> current_round,
                        total_participants |-> 0, transaction_hash |-> <<>>]
        /\ UNCHANGED <<current_round, registered_hospitals, round_updates,
                       global_model_weights, global_metrics, started>>
        /\ SetLedger(S.ledger)
        /\ emitted' = S.emitted

\* SubmitUpdate, the except branch around decrypt_weights
DecryptionFailed(req) ==
    /\ response' = [success |-> FALSE, current_round |-> current_round,
                    total_participants |-> 0, transaction_hash |-> <<>>]
    /\ UNCHANGED <<current_round, registered_hospitals, round_updates,
                   global_model_weights, global_metrics, emitted, started>>
    /\ UNCHANGED <<chain, pending, clock, accepted>>

\* SubmitUpdate(request).  The dashboard broadcasts (asyncio.create_task on
\* websocket_server.broadcast) belong to the push transport, an external
\* collaborator: they change no coordinator or ledger state and are left out.
SubmitUpdate(req) ==
    /\ request' = Some(req)
    /\ IF DecryptRaises(req.encrypted_weights)
       THEN DecryptionFailed(req)
       ELSE LET r == req.round_number
                buffer == (IF r \in DOMAIN round_updates THEN round_updates[r] ELSE <<>>)
                          \o << UpdateOf(req) >>
                S == [ledger |-> Logged(Ledger, UpdateTx(req), difficulty),
                      emitted |-> Append(emitted, UpdateTx(req))]
            IN  /\ round_updates' = DictSet(round_updates, r, buffer)
                /\ UNCHANGED registered_hospitals
                /\ IF Quorum(Len(buffer))
                   THEN AggregateRound(r, buffer, S)
                   ELSE /\ SetLedger(S.ledger)
                        /\ emitted' = S.emitted
                        /\ response' = [success |-> TRUE, current_round |-> current_round,
                                        total_participants |-> Len(buffer),
                                        transaction_hash |-> TxHash(UpdateTx(req))]
                        /\ UNCHANGED <<current_round, global_model_weights, global_metrics, started>>
    /\ UNCHANGED <<difficulty, file, tampered>>
    /\ UNCHANGED apiVars
    /\ UNCHANGED workerVars

\* GetGlobalModel(request): the answer in the current state
GetGlobalModel ==
    IF global_model_weights = NoValue
    THEN [round_number |-> 0, model_weights |-> NoValue, global_accuracy |-> 0,
          global_loss |-> 0, total_samples |-> 0]
    ELSE [round_number |-> current_round, model_weights |-> global_model_weights,
          global_accuracy |-> global_metrics.accuracy, global_loss |-> global_metrics.loss,
          total_samples |-> global_metrics.total_samples]

\* GetTrainingStatus(request): the answer in the current state
GetTrainingStatus ==
    [current_round |-> current_round, total_rounds |-> FLRounds,
     connected_hospitals |-> Cardinality(DOMAIN registered_hospitals),
     global_accuracy |-> global_metrics.accuracy, global_loss |-> global_metrics.loss,
     is_training |-> current_round < FLRounds]

\* RegisterHospital and SubmitUpdate calls that reached the ledger so far
CallsMade ==
    Len(SelectSeq(emitted, LAMBDA tx : tx.type \in {"HOSPITAL_REGISTRATION", "MODEL_UPDATE"}))

Register ==
    /\ CallsMade < MaxCalls
    /\ \E h \in Registering : RegisterHospital(h)

Submit ==
    /\ CallsMade < MaxCalls
    /\ \E req \in Requests : SubmitUpdate(req)

NextCoord ==
    \/ Register
    \/ Submit

SpecCoord == Init /\ [][NextCoord]_vars

\* SubmitUpdate requests of two rounds: hospitals that trained on 100 and 300
\* samples, hospitals that trained on 1500 samples each, and one that trained
\* on none
RoundRequests ==
    { [hospital_id |-> "hospital_1", round_number |-> 1, encrypted_weights |-> encrypt_weights(<<2000>>),
       samples_trained |-> 100, local_accuracy |-> 850, local_loss |-> 400, timestamp |-> 0],
      [hospital_id |-> "hospital_2", round_number |-> 1, encrypted_weights |-> encrypt_weights(<<4000>>),
       samples_trained |-> 300, local_accuracy |-> 900, local_loss |-> 300, timestamp |-> 0],
      [hospital_id |-> "hospital_1", round_number |-> 2, encrypted_weights |-> encrypt_weights(<<2000, 1000>>),
       samples_trained |-> 1500, local_accuracy |-> 850, local_loss |-> 400, timestamp |-> 0],
      [hospital_id |-> "hospital_2", round_number |-> 2, encrypted_weights |-> encrypt_weights(<<4000, 3000>>),
       samples_trained |-> 1500, local_accuracy |-> 900, local_loss |-> 300, timestamp |-> 0],
      [hospital_id |-> "hospital_3", round_number |-> 3, encrypted_weights |-> encrypt_weights(<<2000>>),
       samples_trained |-> 0, local_accuracy |-> 850, local_loss |-> 400, timestamp |-> 0] }

SubmitRound ==
    /\ CallsMade < MaxCalls
    /\ \E req \in RoundRequests : SubmitUpdate(req)

NextRounds ==
    \/ Register
    \/ SubmitRound

SpecRounds == Init /\ [][NextRounds]_vars

\* ------------------------------------------------ coordinator worker threads
\* serve() runs the servicer on grpc.server(ThreadPoolExecutor(max_workers=10)):
\* calls run on worker threads that share the servicer's fields without a
\* lock.  A SubmitUpdate that reaches quorum goes through _aggregate_round one
\* assignment to a shared field at a time; reads by other workers fall between.
WorkerRequests ==
    { [hospital_id |-> "hospital_1", round_number |-> 1, encrypted_weights |-> encrypt_weights(<<2000>>),
       samples_trained |-> 100, local_accuracy |-> 850, local_loss |-> 400, timestamp |-> 0],
      [hospital_id |-> "hospital_2", round_number |-> 1, encrypted_weights |-> encrypt_weights(<<4000>>),
       samples_trained |-> 300, local_accuracy |-> 900, local_loss |-> 300, timestamp |-> 0],
      [hospital_id |-> "hospital_3", round_number |-> 2, encrypted_weights |-> encrypt_weights(<<>>),
       samples_trained |-> 0, local_accuracy |-> 850, local_loss |-> 400, timestamp |-> 0] }

WorkerFrame ==
    /\ UNCHANGED <<difficulty, file, tampered, registered_hospitals>>
    /\ UNCHANGED apiVars

\* an exception leaves the call of worker t
WorkerRaises(t) ==
    /\ tpc' = [tpc EXCEPT ![t] = "idle"]
    /\ tloc' = [tloc EXCEPT ![t] = NoLocals]
    /\ response' = Raised

\* SubmitUpdate up to the quorum test: decrypt, append to the round's buffer,
\* log the MODEL_UPDATE, count the buffer
WorkerReceive(t, req) ==
    /\ tpc[t] = "idle"
    /\ CallsMade < MaxThreaded
    /\ request' = Some(req)
    /\ IF DecryptRaises(req.encrypted_weights)
       THEN DecryptionFailed(req) /\ UNCHANGED <<tpc, tloc>>
       ELSE LET r == req.round_number
                buffer == (IF r \in DOMAIN round_updates THEN round_updates[r] ELSE <<>>)
                          \o << UpdateOf(req) >>
                S == [ledger |-> Logged(Ledger, UpdateTx(req), difficulty),
                      emitted |-> Append(emitted, UpdateTx(req))]
            IN  /\ round_updates' = DictSet(round_updates, r, buffer)
                /\ SetLedger(S.ledger)
                /\ emitted' = S.emitted
                /\ UNCHANGED <<current_round, global_model_weights, global_metrics, started>>
                /\ IF Quorum(Len(buffer))
                   THEN /\ tpc' = [tpc EXCEPT ![t] = "aggregate"]
                        /\ tloc' = [tloc EXCEPT ![t] = [NoLocals EXCEPT !.round = r,
                                                                         !.participants = Len(buffer),
                                                                         !.tx_hash = TxHash(UpdateTx(req))]]
                        /\ UNCHANGED response
                   ELSE /\ response' = [success |-> TRUE, current_round |-> current_round,
                                        total_participants |-> Len(buffer),
                                        transaction_hash |-> TxHash(UpdateTx(req))]
                        /\ UNCHANGED <<tpc, tloc>>
    /\ UNCHANGED <<served, computed>>
    /\ WorkerFrame

\* _aggregate_round: total_samples, the layer loop, self.global_model_weights = ...
WorkerWeights(t) ==
    /\ tpc[t] = "aggregate"
    /\ LET updates == round_updates[tloc[t].round]
           total == TotalSamples(updates)
           weights == [l \in 1..Len(updates[1].weights) |-> AggregatedLayer(updates, l, total)]
       IN  /\ started' = Append(started, tloc[t].round)
           /\ IF AggregateRaises(updates) = "weights"
              THEN WorkerRaises(t) /\ UNCHANGED global_model_weights
              ELSE /\ global_model_weights' = Some(weights)
                   /\ tpc' = [tpc EXCEPT ![t] = "accuracy"]
                   /\ tloc' = [tloc EXCEPT ![t].total = total, ![t].weights = weights]
                   /\ UNCHANGED response
    /\ UNCHANGED <<chain, pending, clock, accepted, current_round, round_updates, global_metrics,
                   emitted, request, served, computed>>
    /\ WorkerFrame

\* self.global_metrics['accuracy'] = sum(...) / total_samples
WorkerAccuracy(t) ==
    /\ tpc[t] = "accuracy"
    /\ LET updates == round_updates[tloc[t].round]
           acc == Weighted([i \in 1..Len(updates) |-> updates[i].local_accuracy], updates, tloc[t].total)
       IN  IF tloc[t].total = 0
           THEN WorkerRaises(t) /\ UNCHANGED global_metrics
           ELSE /\ global_metrics' = [global_metrics EXCEPT !.accuracy = acc]
                /\ tpc' = [tpc EXCEPT ![t] = "loss"]
                /\ tloc' = [tloc EXCEPT ![t].accuracy = acc]
                /\ UNCHANGED response
    /\ UNCHANGED <<chain, pending, clock, accepted, current_round, round_updates, global_model_weights,
                   emitted, started, request, served, computed>>
    /\ WorkerFrame

\* self.global_metrics['loss'] = sum(...) / total_samples
WorkerLoss(t) ==
    /\ tpc[t] = "loss"
    /\ LET updates == round_updates[tloc[t].round]
           loss == Weighted([i \in 1..Len(updates) |-> updates[i].local_loss], updates, tloc[t].total)
       IN  /\ global_metrics' = [global_metrics EXCEPT !.loss = loss]
           /\ tloc' = [tloc EXCEPT ![t].loss = loss]
    /\ tpc' = [tpc EXCEPT ![t] = "total"]
    /\ UNCHANGED <<chain, pending, clock, accepted, current_round, round_updates, global_model_weights,
                   emitted, started, response, request, served, computed>>
    /\ WorkerFrame

\* self.global_metrics['total_samples'] = total_samples
WorkerTotal(t) ==
    /\ tpc[t] = "total"
    /\ global_metrics' = [global_metrics EXCEPT !.total_samples = tloc[t].total]
    /\ tpc' = [tpc EXCEPT ![t] = "round"]
    /\ UNCHANGED <<chain, pending, clock, accepted, current_round, round_updates, global_model_weights,
                   emitted, started, response, request, tloc, served, computed>>
    /\ WorkerFrame

\* self.current_round = round_number: the last of the five fields this
\* aggregation writes
WorkerRound(t) ==
    /\ tpc[t] = "round"
    /\ current_round' = tloc[t].round
    /\ computed' = computed \cup
          { [round_number |-> tloc[t].round, model_weights |-> Some(tloc[t].weights),
             global_accuracy |-> tloc[t].accuracy, global_loss |-> tloc[t].loss,
             total_samples |-> tloc[t].total] }
    /\ tpc' = [tpc EXCEPT ![t] = "log"]
    /\ UNCHANGED <<chain, pending, clock, accepted, round_updates, global_model_weights, global_metrics,
                   emitted, started, response, request, tloc, served>>
    /\ WorkerFrame

\* the transactions _aggregate_round and _distribute_rewards log, read from
\* the shared fields as they are when the worker gets there
SharedAggregationTxs(r, updates, total) ==
    << [type |-> "MODEL_AGGREGATION", round |-> r, global_accuracy |-> global_metrics.accuracy,
        global_loss |-> global_metrics.loss, participants |-> Len(updates), total_samples |-> total] >>
    \o [i \in 1..Len(updates) |->
           [type |-> "REWARD_DISTRIBUTION", hospital_id |-> updates[i].hospital_id,
            round |-> r, reward_tokens |-> RewardTokens(updates[i], global_metrics.total_samples),
            accuracy |-> updates[i].local_accuracy,
            samples_contributed |-> updates[i].samples_trained]]

\* _aggregate_round from the MODEL_AGGREGATION log on, _distribute_rewards,
\* and the return of SubmitUpdate
WorkerLog(t) ==
    /\ tpc[t] = "log"
    /\ LET T == EmitAllNow([ledger |-> Ledger, emitted |-> emitted],
                           SharedAggregationTxs(tloc[t].round, round_updates[tloc[t].round], tloc[t].total))
       IN  /\ SetLedger(T.ledger)
           /\ emitted' = T.emitted
    /\ response' = [success |-> TRUE, current_round |-> current_round,
                    total_participants |-> tloc[t].participants,
                    transaction_hash |-> tloc[t].tx_hash]
    /\ tpc' = [tpc EXCEPT ![t] = "idle"]
    /\ tloc' = [tloc EXCEPT ![t] = NoLocals]
    /\ UNCHANGED <<current_round, round_updates, global_model_weights, global_metrics,
                   started, request, served, computed>>
    /\ WorkerFrame

\* a GetGlobalModel or GetTrainingStatus call served by another worker
ServeRead(op) ==
    /\ served' = Some([op |-> op,
                       answer |-> IF op = "GetGlobalModel" THEN GetGlobalModel ELSE GetTrainingStatus])
    /\ UNCHANGED <<chain, pending, clock, accepted, current_round, round_updates, global_model_weights,
                   global_metrics, emitted, started, response, request, tpc, tloc, computed>>
    /\ WorkerFrame

NextWorkers ==
    \/ \E t \in Workers :
          \/ \E req \in WorkerRequests : WorkerReceive(t, req)
          \/ WorkerWeights(t)
          \/ WorkerAccuracy(t)
          \/ WorkerLoss(t)
          \/ WorkerTotal(t)
          \/ WorkerRound(t)
          \/ WorkerLog(t)
    \/ \E op \in {"GetGlobalModel", "GetTrainingStatus"} : ServeRead(op)

SpecWorkers == Init /\ [][NextWorkers]_vars

\* ------------------------------------------------------------- ledger API
\* fabric_api.py serves the ledger from one uvicorn event loop.  Its handlers
\* are coroutines (async def) without an await, so a handler that has started
\* runs to its return before the loop starts another one: handler w takes a
\* step only while no other handler is between its first and last statement.
MayRunBad(w) == TRUE

MayRun(w) == \A v \in Handlers \ {w} : wpc[v] = "idle"

ApiFrame == UNCHANGED <<difficulty, file, tampered, running, verdict, payout, answer, callVars>> /\ UNCHANGED coordVars

\* submit_transaction -> add_transaction: stamp and pending_transactions.append
ApiAppend(w, tx) ==
    /\ wpc[w] = "idle"
    /\ MayRun(w)
    /\ Len(accepted) < MaxAccepted
    /\ pending' = Append(pending, Stamp(tx, clock))
    /\ accepted' = Append(accepted, Stamp(tx, clock))
    /\ clock' = clock + StampTicks(tx)
    /\ wpc' = [wpc EXCEPT ![w] = "appended"]
    /\ UNCHANGED <<chain, wblock>>
    /\ ApiFrame

\* add_transaction: if len(self.pending_transactions) >= 5: mine, else return
ApiCheckFull(w) ==
    /\ wpc[w] = "appended"
    /\ MayRun(w)
    /\ wpc' = [wpc EXCEPT ![w] = IF PoolFull(pending) THEN "mine" ELSE "idle"]
    /\ UNCHANGED <<chain, pending, clock, accepted, wblock>>
    /\ ApiFrame

\* mine_block handler: answers at once when the pool is empty
ApiMineRequest(w) ==
    /\ wpc[w] = "idle"
    /\ MayRun(w)
    /\ wpc' = [wpc EXCEPT ![w] = IF pending = <<>> THEN "idle" ELSE "mine"]
    /\ UNCHANGED <<chain, pending, clock, accepted, wblock>>
    /\ ApiFrame

\* mine_pending_transactions: the empty test, then new_block = Block(...) of a
\* copy of the pool, mined
ApiBuildBlock(w) ==
    /\ wpc[w] = "mine"
    /\ MayRun(w)
    /\ IF pending = <<>>
       THEN /\ wpc' = [wpc EXCEPT ![w] = "idle"]
            /\ UNCHANGED <<wblock, clock>>
       ELSE /\ wblock' = [wblock EXCEPT ![w] = Some(NewBlock(chain, pending, clock, difficulty))]
            /\ clock' = clock + 1
            /\ wpc' = [wpc EXCEPT ![w] = "append"]
    /\ UNCHANGED <<chain, pending, accepted>>
    /\ ApiFrame

\* mine_pending_transactions: self.chain.append(new_block)
ApiAppendBlock(w) ==
    /\ wpc[w] = "append"
    /\ MayRun(w)
    /\ chain' = Append(chain, Value(wblock[w]))
    /\ wblock' = [wblock EXCEPT ![w] = NoValue]
    /\ wpc' = [wpc EXCEPT ![w] = "clear"]
    /\ UNCHANGED <<pending, clock, accepted>>
    /\ ApiFrame

\* mine_pending_transactions: self.pending_transactions = []
ApiClearPool(w) ==
    /\ wpc[w] = "clear"
    /\ MayRun(w)
    /\ pending' = <<>>
    /\ wpc' = [wpc EXCEPT ![w] = "idle"]
    /\ UNCHANGED <<chain, clock, accepted, wblock>>
    /\ ApiFrame

NextApi ==
    \E w \in Handlers :
        \/ \E tx \in TxInputs : ApiAppend(w, tx)
        \/ ApiCheckFull(w)
        \/ ApiMineRequest(w)
        \/ ApiBuildBlock(w)
        \/ ApiAppendBlock(w)
        \/ ApiClearPool(w)

SpecApi == Init /\ [][NextApi]_vars

\* ------------------------------------------- persistence and tampering
\* Blockchain.save_to_file: json.dump(self.get_chain())
save_to_file ==
    /\ file' = Some(json_dump(get_chain(chain)))
    /\ UNCHANGED <<chain, pending, difficulty, clock, accepted, tampered>>
    /\ UNCHANGED coordVars
    /\ UNCHANGED apiVars

LoadBlockBad(d) ==
    [Block(d.index, d.timestamp, d.transactions, d.previous_hash, 0) EXCEPT !.hash = d.hash]

\* the Block built by load_from_file from one record of the file
LoadBlock(d) ==
    [Block(d.index, d.timestamp, d.transactions, d.previous_hash, d.nonce) EXCEPT !.hash = d.hash]

\* the chain load_from_file installs over chain c: c itself when there is no
\* file, else one Block per record of the file
Loaded(c, f) ==
    IF f = NoValue THEN c
    ELSE LET chain_data == json_load(Value(f))
         IN  [i \in 1..Len(chain_data) |-> LoadBlock(chain_data[i])]

\* Blockchain.load_from_file
load_from_file ==
    /\ chain' = Loaded(chain, file)
    /\ UNCHANGED <<pending, difficulty, clock, accepted, file, tampered>>
    /\ UNCHANGED coordVars
    /\ UNCHANGED apiVars

ForgedTx == [type |-> "REWARD_DISTRIBUTION", hospital_id |-> "hospital_2", round |-> 1,
             reward_tokens |-> 99, timestamp |-> 0]

\* what someone with access to a block record can turn it into: a changed
\* field with the stored hash kept, a replaced stored hash, or changed content
\* re-hashed and re-mined for difficulty d
Alterations(b, d) ==
    { [b EXCEPT !.timestamp = @ + 1],
      [b EXCEPT !.nonce = @ + 1],
      [b EXCEPT !.transactions = Append(@, ForgedTx)],
      [b EXCEPT !.previous_hash = Zeros(HashDigits)],
      [b EXCEPT !.hash = Zeros(HashDigits)],
      [b EXCEPT !.hash = HexDigest(HashSpace - 1)],
      [b EXCEPT !.hash = calculate_hash(b)],
      mine_block(Block(b.index, b.timestamp, Append(b.transactions, ForgedTx), b.previous_hash, 0), d),
      Block(b.index, b.timestamp, Append(b.transactions, ForgedTx), b.previous_hash, 0) }

\* the persisted file is edited between a save and a load
EditFile ==
    /\ file # NoValue
    /\ tampered < MaxTamper
    /\ LET chain_data == json_load(Value(file))
       IN  \E i \in 1..Len(chain_data) : \E b \in Alterations(chain_data[i], difficulty) :
              file' = Some(json_dump([chain_data EXCEPT ![i] = b]))
    /\ tampered' = tampered + 1
    /\ UNCHANGED <<chain, pending, difficulty, clock, accepted>>
    /\ UNCHANGED coordVars
    /\ UNCHANGED apiVars

\* a block object of the chain is altered in memory after mining
AlterBlock ==
    /\ tampered < MaxTamper
    /\ \E i \in 1..Len(chain) : \E b \in Alterations(chain[i], difficulty) :
          chain' = [chain EXCEPT ![i] = b]
    /\ tampered' = tampered + 1
    /\ UNCHANGED <<pending, difficulty, clock, accepted, file>>
    /\ UNCHANGED coordVars
    /\ UNCHANGED apiVars

\* the transactions stored before the chain is saved, loaded or altered
StoredInputs == { [type |-> "HOSPITAL_REGISTRATION", hospital_id |-> "hospital_1"] }

AddStored ==
    /\ Len(accepted) < MaxStored
    /\ \E tx \in StoredInputs : add_transaction(tx)

NextTamper ==
    \/ AddStored
    \/ mine_pending_transactions
    \/ save_to_file
    \/ load_from_file
    \/ EditFile
    \/ AlterBlock

SpecTamper == Init /\ [][NextTamper]_vars

\* ------------------------------------------------ service stop and start
\* fabric_api.shutdown_event: blockchain.save_to_file(BLOCKCHAIN_FILE), and the
\* process ends; chain and pending keep what the ended process held
shutdown_event ==
    /\ running
    /\ running' = FALSE
    /\ file' = Some(json_dump(get_chain(chain)))
    /\ UNCHANGED <<chain, pending, difficulty, clock, accepted, tampered, wpc, wblock, verdict, payout, answer, callVars>>
    /\ UNCHANGED coordVars

\* a new process: blockchain = Blockchain(difficulty) at import, then
\* fabric_api.startup_event: blockchain.load_from_file(BLOCKCHAIN_FILE)
startup_event ==
    /\ ~running
    /\ clock + 2 <= MaxClock
    /\ running' = TRUE
    /\ chain' = Loaded(<< GenesisBlock(clock, difficulty) >>, file)
    /\ pending' = <<>>
    /\ clock' = clock + 2
    /\ UNCHANGED <<difficulty, accepted, file, tampered, wpc, wblock, verdict, payout, answer, callVars>>
    /\ UNCHANGED coordVars

ServeAdd ==
    /\ running
    /\ Len(accepted) < MaxServed
    /\ \E tx \in TxInputs : add_transaction(tx)

ServeMine == running /\ mine_pending_transactions

NextPersist ==
    \/ ServeAdd
    \/ ServeMine
    \/ shutdown_event
    \/ startup_event

SpecPersist == Init /\ [][NextPersist]_vars

\* ------------------------------------------------ validation endpoint
\* transactions posted to the ledger API ahead of validation requests; the
\* API admits any type and data, also a registration without hospital_id
LedgerInputs ==
    { [type |-> "HOSPITAL_REGISTRATION", hospital_id |-> "hospital_1"],
      [type |-> "HOSPITAL_REGISTRATION", hospital_name |-> "General Hospital"],
      [type |-> "MODEL_UPDATE", hospital_id |-> "hospital_1", round |-> 1,
       accuracy |-> 850, samples_trained |-> 100, timestamp |-> 0] }

PostTransaction ==
    /\ Len(accepted) < MaxPosted
    /\ \E tx \in LedgerInputs : add_transaction(tx)

\* fabric_api.validate_update: validator.execute(update_data)
validate_update(u) ==
    /\ verdict' = Some([update |-> u, result |-> execute(u, chain), height |-> Len(chain)])
    /\ UNCHANGED <<chain, pending, difficulty, clock, accepted, file, tampered, wpc, wblock, running, payout, answer, callVars>>
    /\ UNCHANGED coordVars

ValidateUpdate == \E u \in UpdateInputs : validate_update(u)

NextValidator ==
    \/ PostTransaction
    \/ mine_pending_transactions
    \/ ValidateUpdate

SpecValidator == Init /\ [][NextValidator]_vars

\* ------------------------------------------------ reward calculation
AccuracyInputs == {0, 850, 900, 901, 950, 1000}

SampleInputs == {0, 1, 100, 300, 333}

TotalInputs == {0, 3, 400, 1000}

\* one call of RewardDistributor.execute; it reads and writes no ledger state
CalculateReward ==
    /\ \E h \in Hospitals : \E a \in AccuracyInputs : \E n \in SampleInputs : \E t \in TotalInputs :
          payout' = Some([hospital_id |-> h, accuracy |-> a, samples_contributed |-> n,
                          total_samples |-> t,
                          result |-> RewardDistributor_execute(h, 1, a, n, t)])
    /\ UNCHANGED <<chain, pending, difficulty, clock, accepted, file, tampered, wpc, wblock,
                   running, verdict, answer, callVars>>
    /\ UNCHANGED coordVars

NextReward == CalculateReward

\* ------------------------------------------------ reward ledger
\* REWARD_DISTRIBUTION transactions that reach the ledger (tokens in
\* thousandths): 10.0 and 20.0 for hospital_1, 45.5 for hospital_2, 12.0 for
\* hospital_3, and one without reward_tokens
RewardInputs ==
    { [type |-> "REWARD_DISTRIBUTION", hospital_id |-> "hospital_1", round |-> 1,
       reward_tokens |-> 10000, accuracy |-> 850, samples_contributed |-> 100, timestamp |-> 0],
      [type |-> "REWARD_DISTRIBUTION", hospital_id |-> "hospital_1", round |-> 2,
       reward_tokens |-> 20000, accuracy |-> 900, samples_contributed |-> 100, timestamp |-> 0],
      [type |-> "REWARD_DISTRIBUTION", hospital_id |-> "hospital_2", round |-> 1,
       reward_tokens |-> 45500, accuracy |-> 950, samples_contributed |-> 300, timestamp |-> 0],
      [type |-> "REWARD_DISTRIBUTION", hospital_id |-> "hospital_3", round |-> 1,
       reward_tokens |-> 12000, accuracy |-> 850, samples_contributed |-> 100, timestamp |-> 0],
      [type |-> "REWARD_DISTRIBUTION", hospital_id |-> "hospital_3", round |-> 2, timestamp |-> 0] }

PostReward ==
    /\ Len(accepted) < MaxRewarded
    /\ \E tx \in RewardInputs : add_transaction(tx)

NextLeaderboard ==
    \/ PostReward
    \/ mine_pending_transactions

SpecLeaderboard == Init /\ [][NextLeaderboard]_vars

\* ------------------------------------------------ audited ledger
\* transactions of two hospitals that reach the ledger, stamped by the
\* ledger or carrying the sender's timestamp
AuditInputs ==
    { [type |-> "HOSPITAL_REGISTRATION", hospital_id |-> "hospital_1"],
      [type |-> "MODEL_UPDATE", hospital_id |-> "hospital_1", round |-> 1,
       accuracy |-> 850, samples_trained |-> 100, timestamp |-> 0],
      [type |-> "MODEL_UPDATE", hospital_id |-> "hospital_2", round |-> 1,
       accuracy |-> 900, samples_trained |-> 300, timestamp |-> 4] }

PostAudited ==
    /\ Len(accepted) < MaxAudited
    /\ \E tx \in AuditInputs : add_transaction(tx)

NextAudit ==
    \/ PostAudited
    \/ mine_pending_transactions

SpecAudit == Init /\ [][NextAudit]_vars

\* ------------------------------------------------ training ledger
\* training transactions that reach the ledger through its API, which admits
\* any type and data: updates, aggregations, an update without hospital_id
SummaryInputs ==
    { [type |-> "MODEL_UPDATE", hospital_id |-> "hospital_1", round |-> 1,
       accuracy |-> 850, samples_trained |-> 100, timestamp |-> 0],
      [type |-> "MODEL_UPDATE", round |-> 1, accuracy |-> 900, samples_trained |-> 300, timestamp |-> 0],
      [type |-> "MODEL_AGGREGATION", round |-> 1, global_accuracy |-> 875, global_loss |-> 350,
       participants |-> 2, total_samples |-> 3000, timestamp |-> 0],
      [type |-> "MODEL_AGGREGATION", round |-> 2, global_accuracy |-> 900, global_loss |-> 300,
       participants |-> 2, total_samples |-> 3000, timestamp |-> 0] }

PostTraining ==
    /\ Len(accepted) < MaxSummarised
    /\ \E tx \in SummaryInputs : add_transaction(tx)

NextSummary ==
    \/ PostTraining
    \/ mine_pending_transactions

SpecSummary == Init /\ [][NextSummary]_vars

\* ------------------------------------------------ read operations
\* calls of the read-side operations: the operation, its string argument
\* (type, hospital_id) and its integer argument (index, round, limit)
Call(op, name, index) == [op |-> op, name |-> name, index |-> index]

QueryCalls ==
    { Call("is_chain_valid", None, 0), Call("get_chain", None, 0), Call("get_stats", None, 0),
      Call("get_block", None, 0), Call("get_block", None, 1), Call("get_block", None, 9),
      Call("get_transactions_by_type", "MODEL_UPDATE", 0),
      Call("get_transactions_by_hospital", "hospital_1", 0),
      Call("get_hospital_rewards", "hospital_1", 0),
      Call("execute", "hospital_1", 1), Call("execute", "hospital_1", 2),
      Call("get_leaderboard", None, 0),
      Call("get_audit_trail", "hospital_1", 2), Call("get_audit_trail", None, 100),
      Call("get_training_summary", None, 0) }

\* what the call returns on the ledger as it is
Returned(call) ==
    CASE call.op = "is_chain_valid" -> is_chain_valid(chain, difficulty)
      [] call.op = "get_chain" -> get_chain(chain)
      [] call.op = "get_stats" -> get_stats(chain, pending, difficulty)
      [] call.op = "get_block" -> get_block(chain, call.index)
      [] call.op = "get_transactions_by_type" -> get_transactions_by_type(chain, call.name)
      [] call.op = "get_transactions_by_hospital" -> get_transactions_by_hospital(chain, call.name)
      [] call.op = "get_hospital_rewards" -> get_hospital_rewards(chain, call.name)
      [] call.op = "execute" ->
            execute([hospital_id |-> call.name, round |-> call.index, accuracy |-> 850,
                     samples_trained |-> 100], chain)
      [] call.op = "get_leaderboard" -> get_leaderboard(chain)
      [] call.op = "get_audit_trail" -> get_audit_trail(chain, call.name, None, call.index)
      [] call.op = "get_training_summary" -> get_training_summary(chain)

LedgerAfterReadBad(call) ==
    IF call.op = "get_audit_trail"
    THEN << [i \in 1..Len(chain) |->
                [chain[i] EXCEPT !.transactions = SortedDesc(@, "timestamp", -1)]], pending >>
    ELSE << chain, pending >>

\* the chain and the pool after a read operation: none assigns to self.chain,
\* to a field of a block or to self.pending_transactions; the lists they
\* build, filter and sort are their own
LedgerAfterRead(call) == << chain, pending >>

\* one call of a read-side operation; `again` tells that the call before it
\* was the same call on the same chain and pool
Query(call) ==
    /\ answer' = Some([call |-> call, result |-> Returned(call), ledger |-> << chain, pending >>,
                       again |-> /\ answer # NoValue
                                 /\ Value(answer).call = call
                                 /\ Value(answer).ledger = << chain, pending >>])
    /\ chain' = LedgerAfterRead(call)[1]
    /\ pending' = LedgerAfterRead(call)[2]
    /\ UNCHANGED <<difficulty, clock, accepted, file, tampered, wpc, wblock, running, verdict, payout, callVars>>
    /\ UNCHANGED coordVars

PostQueried ==
    /\ Len(accepted) < MaxQueried
    /\ \E tx \in TxInputs : add_transaction(tx)

NextQueries ==
    \/ PostQueried
    \/ mine_pending_transactions
    \/ \E call \in QueryCalls : Query(call)

SpecQueries == Init /\ [][NextQueries]_vars

\* ------------------------------------------------ weights codec
RECURSIVE ModPow(_, _, _)
\* b ^ e modulo m
ModPow(b, e, m) == IF e = 0 THEN 1 % m ELSE (ModPow(b, e - 1, m) * b) % m

\* paillier.generate_paillier_keypair(n_length): the private key of modulus
\* n = p * q holds lambda = lcm(p - 1, q - 1) and mu = lambda^-1 mod n (g = n + 1)
KeyPairs == { [n |-> 15, lambda |-> 4, mu |-> 4], [n |-> 35, lambda |-> 12, mu |-> 3] }

\* the public half of a keypair
PublicOf(kp) == [n |-> kp.n]

\* the random obfuscators r of an encryption
Obfuscators == {2, 11}

\* public_key.encrypt(float(w)): (1 + n)^m * r^n mod n^2, a negative value
\* encoded as n - |v|
Encrypt(pk, v, r) ==
    LET m == IF v < 0 THEN pk.n + v ELSE v
    IN  [n |-> pk.n, ciphertext |-> ((1 + pk.n * m) * ModPow(r, pk.n, pk.n * pk.n)) % (pk.n * pk.n)]

\* private_key.decrypt refuses a number encrypted against another key
DecryptValueRaises(sk, c) == c.n # sk.n

\* private_key.decrypt(enc_val): L(c^lambda mod n^2) * mu mod n, decoded
DecryptValue(sk, c) ==
    LET x == ModPow(c.ciphertext, sk.lambda, sk.n * sk.n)
        m == (((x - 1) \div sk.n) * sk.mu) % sk.n
    IN  IF m >= sk.n - (sk.n \div 3) THEN m - sk.n ELSE m

RECURSIVE Size(_)
\* the number of elements of an array of this shape
Size(shape) == IF shape = <<>> THEN 1 ELSE shape[1] * Size(Tail(shape))

\* a numpy array: element type, shape, and the elements in row-major order
Array(dtype, shape, data) == [dtype |-> dtype, shape |-> shape, data |-> data]

\* weight_array.flatten(): a one-dimensional copy
flatten(a) == [a EXCEPT !.shape = << Len(a.data) >>]

\* reshape raises when the shape does not hold the elements
ReshapeRaises(a, shape) == Size(shape) # Len(a.data)

ReshapeBad(a, shape) == a

\* np.array(full_weights).reshape(shape)
Reshape(a, shape) == [a EXCEPT !.shape = shape]

\* pickle.dumps / pickle.loads
pickle_dumps(obj) == [protocol |-> 4, pickled |-> obj]

pickle_loads(bytes) == bytes.pickled

\* EncryptionManager.encrypt_weights(weights), r the randomness of the
\* encryptions
EncryptionManager_encrypt_weights(m, weights, r) ==
    IF m.public_key = NoValue
    THEN Raised
    ELSE [raised |-> FALSE,
          bytes |-> pickle_dumps(
              [i \in 1..Len(weights) |->
                  LET flat_weights == flatten(weights[i])
                      sample_size == IF Len(flat_weights.data) < SampleCap
                                     THEN Len(flat_weights.data) ELSE SampleCap
                  IN  [shape |-> weights[i].shape,
                       encrypted_sample |-> [j \in 1..sample_size |->
                                                Encrypt(Value(m.public_key), flat_weights.data[j], r)],
                       sample_size |-> sample_size,
                       full_weights |-> flat_weights]])]

\* EncryptionManager.decrypt_weights(encrypted_bytes): the decrypted sample is
\* computed and dropped, the arrays come from full_weights
EncryptionManager_decrypt_weights(m, encrypted_bytes) ==
    IF m.private_key = NoValue
    THEN Raised
    ELSE LET encrypted_weights == pickle_loads(encrypted_bytes)
             sk == Value(m.private_key)
         IN  IF \E i \in 1..Len(encrypted_weights) :
                    \/ \E j \in 1..Len(encrypted_weights[i].encrypted_sample) :
                           DecryptValueRaises(sk, encrypted_weights[i].encrypted_sample[j])
                    \/ ReshapeRaises(encrypted_weights[i].full_weights, encrypted_weights[i].shape)
             THEN Raised
             ELSE [raised |-> FALSE,
                   decrypted_sample |->
                       [i \in 1..Len(encrypted_weights) |->
                           [j \in 1..Len(encrypted_weights[i].encrypted_sample) |->
                               DecryptValue(sk, encrypted_weights[i].encrypted_sample[j])]],
                   weights |-> [i \in 1..Len(encrypted_weights) |->
                                   Reshape(encrypted_weights[i].full_weights, encrypted_weights[i].shape)]]

\* weight arrays a model can hold: a scalar, an empty layer, a vector, a
\* matrix, a row and a column of the same elements, and a layer longer than
\* the encrypted sample
ArrayInputs ==
    { Array("float32", <<>>, <<3>>),
      Array("float32", <<0>>, <<>>),
      Array("float32", <<2>>, <<1, -1>>),
      Array("float64", <<2, 2>>, <<1, 2, 3, 0>>),
      Array("float32", <<1, 3>>, <<1, 2, 3>>),
      Array("float32", <<3, 1>>, <<1, 2, 3>>),
      Array("float32", <<SampleCap + 1>>, [j \in 1..(SampleCap + 1) |-> (j % 3) - 1]) }

RECURSIVE ListsOf(_, _)
\* the lists of at most n elements of S
ListsOf(S, n) ==
    IF n = 0 THEN { <<>> }
    ELSE ListsOf(S, n - 1) \cup { Append(l, x) : l \in { k \in ListsOf(S, n - 1) : Len(k) = n - 1 }, x \in S }

WeightInputs == ListsOf(ArrayInputs, MaxLayers)

CodecFrame ==
    /\ UNCHANGED <<chain, pending, difficulty, clock, accepted, file, tampered>>
    /\ UNCHANGED coordVars
    /\ UNCHANGED <<wpc, wblock, running, verdict, payout, answer, mined, miner, succeeded>>

\* EncryptionManager.generate_keypair()
generate_keypair ==
    /\ \E kp \in KeyPairs :
          codec' = [public_key |-> Some(PublicOf(kp)), private_key |-> Some(kp), out |-> NoValue]
    /\ CodecFrame

\* EncryptionManager.set_public_key(public_key_str)
set_public_key ==
    /\ \E kp \in KeyPairs : codec' = [codec EXCEPT !.public_key = Some(PublicOf(kp)), !.out = NoValue]
    /\ CodecFrame

\* decrypt_weights(encrypt_weights(w)) on one EncryptionManager; out keeps the
\* first round trip made with the keys it holds
RoundTrip ==
    /\ codec.out = NoValue
    /\ \E w \in WeightInputs : \E r \in Obfuscators :
          LET encrypted == EncryptionManager_encrypt_weights(codec, w, r)
          IN  codec' = [codec EXCEPT !.out =
                  Some([weights |-> w,
                        encrypted |-> encrypted,
                        decrypted |-> IF encrypted.raised THEN Raised
                                      ELSE EncryptionManager_decrypt_weights(codec, encrypted.bytes)])]
    /\ CodecFrame

NextCodec ==
    \/ generate_keypair
    \/ set_public_key
    \/ RoundTrip

SpecCodec == Init /\ [][NextCodec]_vars

\* ------------------------------------------------ mining calls
\* who calls mine_pending_transactions outside add_transaction: a holder of
\* the Blockchain object, or the POST /api/blockchain/mine handler
MineCallers == {"mine_pending_transactions", "mine_block"}

\* what the mine_block handler of fabric_api.py answers after its call left
\* chain c; the Blockchain method itself returns nothing
MineAnswer(via, was_empty, c) ==
    IF via = "mine_block"
    THEN IF was_empty
         THEN [success |-> FALSE, block |-> NoValue]
         ELSE [success |-> TRUE, block |-> Some([block_index |-> Len(c) - 1,
                                                  block_hash |-> get_latest_block(c).hash])]
    ELSE [success |-> TRUE, block |-> NoValue]

\* one mining call; the handler tests the pool and then calls the method,
\* which tests it again
MineCall(via) ==
    LET L == Mined(Ledger, difficulty)
    IN  /\ SetLedger(L)
        /\ mined' = Some([via |-> via, chain |-> chain, pending |-> pending,
                          response |-> MineAnswer(via, pending = <<>>, L.chain)])
        /\ UNCHANGED <<difficulty, file, tampered, codec, miner, succeeded>>
        /\ UNCHANGED coordVars
        /\ UNCHANGED <<wpc, wblock, running, verdict, payout, answer>>

\* transactions reach the ledger between the mining calls
PostMined ==
    /\ Len(accepted) < MaxMined
    /\ \E tx \in TxInputs : add_transaction(tx)

NextMine ==
    \/ PostMined
    \/ \E via \in MineCallers : MineCall(via)

SpecMine == Init /\ [][NextMine]_vars

\* the ledger with a caller that keeps asking for a block while transactions
\* are pending
NextSealing ==
    \/ PostMined
    \/ mine_pending_transactions

\* weak fairness of mine_pending_transactions, WF_vars written out with the
\* call's enabling condition (it changes the ledger exactly when the pool is
\* not empty)
SpecSealing ==
    /\ Init /\ [][NextSealing]_vars
    /\ ([]<>(pending = <<>>) \/ []<><<mine_pending_transactions>>_vars)


\* ------------------------------------------------ proof-of-work loop
\* the blocks mine_block is called on: the genesis block and the new_block of
\* mine_pending_transactions, each fresh from Block(...) with nonce 0
MinerBlocks ==
    { Block(0, 1, << [type |-> "GENESIS", message |-> "genesis", timestamp |-> 2] >>, <<0>>, 0) }
    \cup { Block(i, t, txs, HexDigest(p), 0) :
             i \in 1..2, t \in {3}, p \in {7, 200},
             txs \in { <<tx>> : tx \in TxInputs } \cup { <<tx, tx>> : tx \in TxInputs } }

\* difficulties a Blockchain is built with
MinerDifficulties == 0..MaxDifficulty

\* the digests of a block repeat after HashSpace nonces
Qualifies(b, d) ==
    \E n \in b.nonce..(b.nonce + HashSpace) : MeetsTarget(NonceDigest(BaseDigest(b), n), d)

AttemptBad(b) == [b EXCEPT !.nonce = @ + 2, !.hash = calculate_hash([b EXCEPT !.nonce = @ + 2])]

\* self.nonce += 1; self.hash = self.calculate_hash()
Attempt(b) == [b EXCEPT !.nonce = @ + 1, !.hash = calculate_hash([b EXCEPT !.nonce = @ + 1])]

MinerFrame ==
    /\ UNCHANGED <<chain, pending, difficulty, clock, accepted, file, tampered>>
    /\ UNCHANGED coordVars
    /\ UNCHANGED <<wpc, wblock, running, verdict, payout, answer, codec, mined, succeeded>>

\* block.mine_block(difficulty) is entered
MineEnter ==
    /\ IF miner = NoValue THEN TRUE ELSE Value(miner).pc = "returned"
    /\ \E b \in MinerBlocks : \E d \in MinerDifficulties :
          miner' = Some([entry |-> b, block |-> b, difficulty |-> d, pc |-> "while"])
    /\ MinerFrame

\* while self.hash[:difficulty] != target: one pass of the body
MineAttempt ==
    /\ miner # NoValue
    /\ Value(miner).pc = "while"
    /\ ~MeetsTarget(Value(miner).block.hash, Value(miner).difficulty)
    /\ Value(miner).block.nonce < Value(miner).entry.nonce + HashSpace
    /\ miner' = Some([Value(miner) EXCEPT !.block = Attempt(@)])
    /\ MinerFrame

\* the loop condition fails: mine_block returns
MineReturn ==
    /\ miner # NoValue
    /\ Value(miner).pc = "while"
    /\ MeetsTarget(Value(miner).block.hash, Value(miner).difficulty)
    /\ miner' = Some([Value(miner) EXCEPT !.pc = "returned"])
    /\ MinerFrame

NextMiner ==
    \/ MineEnter
    \/ MineAttempt
    \/ MineReturn

SpecMiner == Init /\ [][NextMiner]_vars

\* the thread inside mine_block keeps running
SpecMinerLive == SpecMiner /\ WF_vars(MineAttempt) /\ WF_vars(MineReturn)

\* ------------------------------------------------ the round buffer under threads
\* SubmitUpdate on the worker threads of the gRPC server, one statement of its
\* "store update" part at a time; no lock guards round_updates.
BufferRequests ==
    { [hospital_id |-> "hospital_1", round_number |-> 1, encrypted_weights |-> encrypt_weights(<<2000>>),
       samples_trained |-> 100, local_accuracy |-> 850, local_loss |-> 400, timestamp |-> 0],
      [hospital_id |-> "hospital_2", round_number |-> 1, encrypted_weights |-> encrypt_weights(<<4000>>),
       samples_trained |-> 300, local_accuracy |-> 900, local_loss |-> 300, timestamp |-> 0],
      [hospital_id |-> "hospital_3", round_number |-> 1, encrypted_weights |-> encrypt_weights(<<1000>>),
       samples_trained |-> 200, local_accuracy |-> 800, local_loss |-> 500, timestamp |-> 0],
      [hospital_id |-> "hospital_1", round_number |-> 2, encrypted_weights |-> encrypt_weights(<<3000>>),
       samples_trained |-> 100, local_accuracy |-> 950, local_loss |-> 400, timestamp |-> 0] }

\* SubmitUpdate calls entered so far
BufferCalls ==
    CallsMade + Cardinality({t \in Workers : tpc[t] # "idle"})

BufferFrame ==
    /\ UNCHANGED <<difficulty, file, tampered, registered_hospitals>>
    /\ UNCHANGED <<wpc, wblock, running, verdict, payout, answer, codec, mined, miner>>
    /\ UNCHANGED <<served, computed>>

\* a step that touches neither the ledger nor the global model
BufferLocal ==
    /\ UNCHANGED <<chain, pending, clock, accepted, current_round, global_model_weights,
                   global_metrics, emitted, started, response, request, succeeded>>
    /\ BufferFrame

\* SubmitUpdate is entered and decrypt_weights returns
BufferEnter(t, req) ==
    /\ tpc[t] = "idle"
    /\ BufferCalls < MaxBuffered
    /\ ~DecryptRaises(req.encrypted_weights)
    /\ tpc' = [tpc EXCEPT ![t] = "test"]
    /\ tloc' = [tloc EXCEPT ![t] = [round |-> req.round_number, update |-> UpdateOf(req),
                                    tx |-> UpdateTx(req)]]
    /\ UNCHANGED round_updates
    /\ BufferLocal

\* if round_number not in self.round_updates:
BufferTest(t) ==
    /\ tpc[t] = "test"
    /\ tpc' = [tpc EXCEPT ![t] = IF tloc[t].round \notin DOMAIN round_updates THEN "create" ELSE "append"]
    /\ UNCHANGED <<tloc, round_updates>>
    /\ BufferLocal

\* self.round_updates[round_number] = []
BufferCreate(t) ==
    /\ tpc[t] = "create"
    /\ round_updates' = DictSet(round_updates, tloc[t].round, <<>>)
    /\ tpc' = [tpc EXCEPT ![t] = "append"]
    /\ UNCHANGED tloc
    /\ BufferLocal

\* self.round_updates[round_number].append({...})
BufferAppend(t) ==
    /\ tpc[t] = "append"
    /\ round_updates' = DictSet(round_updates, tloc[t].round,
                                Append(round_updates[tloc[t].round], tloc[t].update))
    /\ tpc' = [tpc EXCEPT ![t] = "log"]
    /\ UNCHANGED tloc
    /\ BufferLocal

\* the rest of SubmitUpdate: log the MODEL_UPDATE, count the buffer, aggregate
\* at quorum, answer
BufferAnswer(t) ==
    /\ tpc[t] = "log"
    /\ LET r == tloc[t].round
           buffer == round_updates[r]
           S == [ledger |-> Logged(Ledger, tloc[t].tx, difficulty),
                 emitted |-> Append(emitted, tloc[t].tx)]
       IN  /\ IF Quorum(Len(buffer))
              THEN AggregateRound(r, buffer, S)
              ELSE /\ SetLedger(S.ledger)
                   /\ emitted' = S.emitted
                   /\ response' = [success |-> TRUE, current_round |-> current_round,
                                   total_participants |-> Len(buffer),
                                   transaction_hash |-> TxHash(tloc[t].tx)]
                   /\ UNCHANGED <<current_round, global_model_weights, global_metrics, started>>
           /\ succeeded' = IF (IF response' = Raised THEN TRUE ELSE ~response'.success)
                           THEN succeeded
                           ELSE DictSet(succeeded, r,
                                        (IF r \in DOMAIN succeeded THEN succeeded[r] ELSE <<>>)
                                        \o << tloc[t].update >>)
    /\ tpc' = [tpc EXCEPT ![t] = "idle"]
    /\ tloc' = [tloc EXCEPT ![t] = NoLocals]
    /\ UNCHANGED <<round_updates, request>>
    /\ BufferFrame

NextBuffer ==
    \E t \in Workers :
        \/ \E req \in BufferRequests : BufferEnter(t, req)
        \/ BufferTest(t)
        \/ BufferCreate(t)
        \/ BufferAppend(t)
        \/ BufferAnswer(t)

SpecBuffer == Init /\ [][NextBuffer]_vars

\* SubmitUpdate requests sent while the ledger service comes and goes
OutageRequests ==
    { [hospital_id |-> "hospital_1", round_number |-> 1, encrypted_weights |-> encrypt_weights(<<2000>>),
       samples_trained |-> 100, local_accuracy |-> 850, local_loss |-> 400, timestamp |-> 0],
      [hospital_id |-> "hospital_2", round_number |-> 1, encrypted_weights |-> encrypt_weights(<<4000>>),
       samples_trained |-> 300, local_accuracy |-> 900, local_loss |-> 300, timestamp |-> 0],
      [hospital_id |-> "hospital_1", round_number |-> 2, encrypted_weights |-> encrypt_weights(<<3000>>),
       samples_trained |-> 100, local_accuracy |-> 950, local_loss |-> 400, timestamp |-> 0] }

\* ------------------------------------------------ the ledger service can fail
\* BlockchainClient.log_transaction(tx) for a ledger service that is reached
\* (up) or not: the POST succeeds and the hash of the accepted transaction
\* comes back, or the except / non-200 branch returns ""
log_transaction(S, tx, up) ==
    [ledger |-> IF up THEN Logged(S.ledger, tx, difficulty) ELSE S.ledger,
     emitted |-> Append(S.emitted, tx),
     tx_hash |-> IF up THEN TxHash(tx) ELSE <<>>]

\* log_transaction for a transaction whose timestamp is datetime.now()
LogNow(S, tx, up) ==
    LET t == tx @@ ("timestamp" :> S.ledger.clock + 1)
    IN  log_transaction([S EXCEPT !.ledger.clock = @ + 1], t, up)

\* the log_transaction calls of one aggregation, the i-th reaching the ledger
\* iff i is in ups
RECURSIVE LogAll(_, _, _)
LogAll(S, txs, ups) ==
    IF txs = <<>> THEN S
    ELSE LogNow(LogAll(S, SubSeq(txs, 1, Len(txs) - 1), ups), txs[Len(txs)], Len(txs) \in ups)

\* the updates buffered so far, over all rounds
Buffered ==
    Cardinality({p \in (DOMAIN round_updates) \X (1..MaxOutage) : p[2] <= Len(round_updates[p[1]])})

\* SubmitUpdate(request) where each log_transaction call reaches the ledger
\* service or not: call 0 is the MODEL_UPDATE, calls 1.. are those of
\* _aggregate_round and _distribute_rewards
OutageSubmit(req, ups) ==
    /\ Buffered < MaxOutage
    /\ request' = Some(req)
    /\ IF DecryptRaises(req.encrypted_weights)
       THEN DecryptionFailed(req)
       ELSE LET r == req.round_number
                buffer == (IF r \in DOMAIN round_updates THEN round_updates[r] ELSE <<>>)
                          \o << UpdateOf(req) >>
                total == TotalSamples(buffer)
                S == log_transaction([ledger |-> Ledger, emitted |-> emitted], UpdateTx(req), 0 \in ups)
                raises == IF Quorum(Len(buffer)) THEN AggregateRaises(buffer) ELSE None
                T == IF Quorum(Len(buffer)) /\ raises = None
                     THEN LogAll(S, AggregationTxs(r, buffer), ups)
                     ELSE S
            IN  /\ round_updates' = DictSet(round_updates, r, buffer)
                /\ UNCHANGED registered_hospitals
                /\ started' = IF Quorum(Len(buffer)) THEN Append(started, r) ELSE started
                /\ global_model_weights' =
                      IF ~Quorum(Len(buffer)) \/ raises = "weights" THEN global_model_weights
                      ELSE IF raises = "metrics" THEN Some(<<>>)
                      ELSE Some([l \in 1..Len(buffer[1].weights) |-> AggregatedLayer(buffer, l, total)])
                /\ global_metrics' =
                      IF Quorum(Len(buffer)) /\ raises = None
                      THEN [accuracy |-> Weighted([i \in 1..Len(buffer) |-> buffer[i].local_accuracy], buffer, total),
                            loss |-> Weighted([i \in 1..Len(buffer) |-> buffer[i].local_loss], buffer, total),
                            total_samples |-> total]
                      ELSE global_metrics
                /\ current_round' = IF Quorum(Len(buffer)) /\ raises = None THEN r ELSE current_round
                /\ SetLedger(T.ledger)
                /\ emitted' = T.emitted
                /\ response' = IF raises # None THEN Raised
                               ELSE [success |-> TRUE, current_round |-> current_round',
                                     total_participants |-> Len(buffer),
                                     transaction_hash |-> S.tx_hash]
    /\ UNCHANGED <<difficulty, file, tampered>>
    /\ UNCHANGED apiVars
    /\ UNCHANGED workerVars

NextOutage ==
    \E req \in OutageRequests, ups \in SUBSET (0..MaxOutage + 1) : OutageSubmit(req, ups)

SpecOutage == Init /\ [][NextOutage]_vars

\* ------------------------------------------------ rewards of the Flower path
CoreChainStrategy_calculate_rewardBad(accuracy, samples, total_samples) ==
    LET sample_bonus == IF total_samples > 0 THEN Frac(samples * 5, total_samples) ELSE Frac(0, 1)
        reward == FracAdd(FracAdd(Frac(10, 1), Frac(accuracy * 5, Scale)), sample_bonus)
    IN  Round2(IF accuracy >= 900 THEN FracMul(reward, Frac(12, 10)) ELSE reward)

\* CoreChainStrategy._calculate_reward(accuracy, samples, total_samples),
\* accuracy in thousandths: the reward in hundredths of a token
CoreChainStrategy_calculate_reward(accuracy, samples, total_samples) ==
    LET base_reward == Frac(10, 1)
        accuracy_bonus == Frac(accuracy * 5, Scale)
        sample_bonus == IF total_samples > 0 THEN Frac(samples * 5, total_samples) ELSE Frac(0, 1)
        reward == FracAdd(FracAdd(base_reward, accuracy_bonus), sample_bonus)
    IN  Round2(IF accuracy > 900 THEN FracMul(reward, Frac(12, 10)) ELSE reward)

\* accuracies the clients report, in thousandths
FitAccuracies == {0, 500, 850, 900, 901, 950, 1000}

\* num_examples of one client and of all clients of the round
FitExamples == 0..MaxExamples

\* aggregate_fit, the reward loop for one client of round r: the
\* REWARD_DISTRIBUTION transaction it hands to log_transaction
FitRewardTx(cid, r, accuracy, num_examples, total_examples) ==
    [type |-> "REWARD_DISTRIBUTION", hospital_id |-> cid, round |-> r,
     reward_tokens |-> CoreChainStrategy_calculate_reward(accuracy, num_examples, total_examples),
     accuracy |-> accuracy, samples_contributed |-> num_examples]

\* one contribution rewarded on both paths: by the reward loop of
\* aggregate_fit and by RewardDistributor.execute
FitReward ==
    /\ \E a \in FitAccuracies : \E n \in FitExamples : \E t \in FitExamples :
          payout' = Some([hospital_id |-> "hospital_1", accuracy |-> a, samples_contributed |-> n,
                          total_samples |-> t,
                          result |-> RewardDistributor_execute("hospital_1", 1, a, n, t),
                          flower |-> FitRewardTx("hospital_1", 1, a, n, t)])
    /\ UNCHANGED <<chain, pending, difficulty, clock, accepted, file, tampered, wpc, wblock,
                   running, verdict, answer, callVars>>
    /\ UNCHANGED coordVars

NextFlower == FitReward

SpecFlower == Init /\ [][NextFlower]_vars

SpecReward == Init /\ [][NextReward]_vars

\* ------------------------------------------------------------- claims
Blocks == 1..Len(chain)

HashIntact(b) == b.hash = calculate_hash(b)

Linked(i) == chain[i].previous_hash = chain[i - 1].hash

\* C1: in every state reached from a fresh ledger by add_transaction and
\* mine_pending_transactions calls, every block stores the hash of its own
\* content, that hash starts with `difficulty` zero digits, every block after
\* genesis names its predecessor's hash, and is_chain_valid() answers true.
C1_ChainWellFormed ==
    /\ \A i \in Blocks : HashIntact(chain[i]) /\ MeetsTarget(chain[i].hash, difficulty)
    /\ \A i \in Blocks : i > 1 => Linked(i)
    /\ is_chain_valid(chain, difficulty)

C1_Witness ==
    /\ difficulty >= 1
    /\ Len(chain) >= 3
    /\ \E i \in Blocks : chain[i].nonce > 0 /\ Len(chain[i].transactions) >= BatchThreshold

\* what one add_transaction call does to the pool and the chain
C8_AddStep ==
    accepted' # accepted =>
        LET p == Append(pending, accepted'[Len(accepted')])
        IN  IF Len(p) >= 5
            THEN /\ Len(chain') = Len(chain) + 1
                 /\ SubSeq(chain', 1, Len(chain)) = chain
                 /\ chain'[Len(chain')].transactions = p
                 /\ pending' = <<>>
            ELSE /\ pending' = p
                 /\ chain' = chain

\* C8: add_transaction puts the transaction at the end of the pool and, exactly
\* when the pool then holds 5 or more, seals the whole pool into one new block
\* in the same call; between calls the pool never holds more than 4.
C8_BatchSealing == [](Len(pending) <= 4) /\ [][C8_AddStep]_vars

C8_Witness ==
    /\ \E i \in Blocks : Len(chain[i].transactions) = 5
    /\ Len(pending) >= 1

\* C9: is_chain_valid() answers false exactly when some block after genesis has
\* a stored hash different from its recomputed hash, or a previous_hash
\* different from its predecessor's stored hash, or a hash without `difficulty`
\* leading zero digits; a chain of the genesis block alone is valid.
C9_ValidIffNoDefect ==
    /\ is_chain_valid(chain, difficulty) =
          ~(\E i \in Blocks : i > 1 /\ ( ~HashIntact(chain[i])
                                        \/ ~Linked(i)
                                        \/ ~MeetsTarget(chain[i].hash, difficulty) ))
    /\ (Len(chain) = 1 => is_chain_valid(chain, difficulty))

C9_Witness ==
    /\ tampered > 0
    /\ Len(chain) >= 3
    /\ ~is_chain_valid(chain, difficulty)
    /\ HashIntact(chain[2]) /\ Linked(2) /\ MeetsTarget(chain[2].hash, difficulty)

\* C10: whenever is_chain_valid() answers true, every block of the chain,
\* genesis included, stores the hash of its own content and that hash has
\* `difficulty` leading zero digits, also for loaded and altered chains.
C10_ValidImpliesIntact ==
    is_chain_valid(chain, difficulty) =>
        \A i \in Blocks : HashIntact(chain[i]) /\ MeetsTarget(chain[i].hash, difficulty)

\* C11: save_to_file followed by load_from_file into a fresh ledger of the same
\* difficulty yields the same blocks in the same order, each with the same
\* index, timestamp, transactions, previous_hash, nonce and hash, the hash
\* being the one the file holds, and is_chain_valid() is true on the loaded
\* chain.  (While the service is down, chain is the chain that was saved.)
C11_SaveLoadRoundTrip ==
    [][ (~running /\ running')
        => /\ chain' = chain
           /\ \A i \in 1..Len(chain') : chain'[i].hash = json_load(Value(file))[i].hash
           /\ is_chain_valid(chain', difficulty) ]_vars

C11_Witness ==
    /\ running
    /\ file # NoValue
    /\ chain = Loaded(<<>>, file)
    /\ difficulty >= 1
    /\ Len(chain) >= 3
    /\ \E i \in Blocks : chain[i].nonce > 0 /\ Len(chain[i].transactions) >= 2

IsUpdateFor(tx, h, r) ==
    GetIs(tx, "type", "MODEL_UPDATE") /\ GetIs(tx, "hospital_id", h) /\ GetIs(tx, "round", r)

\* C4: once a MODEL_UPDATE for (hospital_id, round) has been accepted by
\* add_transaction, pending or sealed, the validator rejects every update
\* with the same (hospital_id, round).
C4_AcceptedUpdateRejected ==
    \A i \in 1..Len(accepted) : \A u \in UpdateInputs :
        ( {"hospital_id", "round"} \subseteq DOMAIN u
          /\ IsUpdateFor(accepted[i], u.hospital_id, u.round) )
        => ~execute(u, chain).is_valid

\* ---- coordinator
EmittedOf(type, r) ==
    SelectSeq(emitted, LAMBDA tx : GetIs(tx, "type", type) /\ GetIs(tx, "round", r))

Rounds == {req.round_number : req \in Requests}

Buffer(r) == IF r \in DOMAIN round_updates THEN round_updates[r] ELSE <<>>

\* C2: for every round at most one MODEL_AGGREGATION transaction is ever
\* emitted, whatever submissions arrive after the round aggregated.
C2_AggregatedOnce == \A r \in Rounds : Len(EmittedOf("MODEL_AGGREGATION", r)) <= 1

\* C5: a round's buffer holds at most one entry per hospital_id, and at most
\* one MODEL_UPDATE transaction is emitted per (hospital_id, round).
C5_OneUpdatePerHospital ==
    \A r \in Rounds :
        /\ \A i, j \in 1..Len(Buffer(r)) :
              Buffer(r)[i].hospital_id = Buffer(r)[j].hospital_id => i = j
        /\ \A h \in Hospitals :
              Len(SelectSeq(EmittedOf("MODEL_UPDATE", r), LAMBDA tx : tx.hospital_id = h)) <= 1

\* the validator's rules (registered hospital, accuracy in [0, 1], samples > 0)
PassesRules(h, acc, samples) ==
    /\ h \in DOMAIN registered_hospitals
    /\ 0 <= acc /\ acc <= Scale
    /\ samples > 0

\* C6: an update from a hospital that never registered, with local_accuracy
\* outside [0, 1] or with samples_trained <= 0 is not in any round buffer and
\* has no MODEL_UPDATE transaction.
C6_OnlyValidBuffered ==
    /\ \A r \in Rounds : \A i \in 1..Len(Buffer(r)) :
          PassesRules(Buffer(r)[i].hospital_id, Buffer(r)[i].local_accuracy, Buffer(r)[i].samples_trained)
    /\ \A i \in 1..Len(emitted) :
          GetIs(emitted[i], "type", "MODEL_UPDATE")
          => PassesRules(emitted[i].hospital_id, emitted[i].accuracy, emitted[i].samples_trained)

NotAvailable ==
    [round_number |-> 0, model_weights |-> NoValue, global_accuracy |-> 0,
     global_loss |-> 0, total_samples |-> 0]

\* a SubmitUpdate whose payload decoded: it emitted a MODEL_UPDATE first
SubmitStep ==
    /\ Len(emitted') > Len(emitted)
    /\ emitted'[Len(emitted) + 1].type = "MODEL_UPDATE"

C7_Step ==
    SubmitStep =>
        LET r == emitted'[Len(emitted) + 1].round
            n == Len(round_updates'[r])
            agg == SelectSeq(SubSeq(emitted', Len(emitted) + 2, Len(emitted')),
                             LAMBDA tx : tx.type = "MODEL_AGGREGATION")
        IN  IF n >= MinClients
            THEN /\ started' = Append(started, r)
                 /\ response' # Raised =>
                       /\ Len(agg) = 1 /\ agg[1].round = r /\ agg[1].participants = n
                       /\ current_round' = r
                       /\ global_model_weights' # NoValue
                       /\ response'.success /\ response'.current_round = r
            ELSE /\ started' = started
                 /\ Len(emitted') = Len(emitted) + 1
                 /\ UNCHANGED <<current_round, global_model_weights, global_metrics>>
                 /\ response'.success

RECURSIVE Count(_, _)
Count(seq, x) ==
    IF seq = <<>> THEN 0
    ELSE Count(SubSeq(seq, 1, Len(seq) - 1), x) + (IF seq[Len(seq)] = x THEN 1 ELSE 0)

RECURSIVE Sealed(_)
Sealed(c) ==
    IF Len(c) <= 1 THEN <<>>
    ELSE Sealed(SubSeq(c, 1, Len(c) - 1)) \o c[Len(c)].transactions

Quiet == \A w \in Handlers : wpc[w] = "idle"

C12_AcceptedNeverDropped ==
    running => \A i \in 1..Len(accepted) :
                  Count(Sealed(chain), accepted[i]) + Count(pending, accepted[i]) >= 1

\* ---- validator
\* the sealed chain the last validation read
Seen == SubSeq(chain, 1, Value(verdict).height)

SealedWith(c, type, h) ==
    \E i \in 1..Len(c) : \E j \in 1..Len(c[i].transactions) :
        GetIs(c[i].transactions[j], "type", type) /\ GetIs(c[i].transactions[j], "hospital_id", h)

SealedUpdate(c, h, r) ==
    \E i \in 1..Len(c) : \E j \in 1..Len(c[i].transactions) :
        IsUpdateFor(c[i].transactions[j], h, r)

HasFields(u) == {"hospital_id", "round", "accuracy", "samples_trained"} \subseteq DOMAIN u

\* the first failing condition, in the order missing field, not registered,
\* invalid accuracy, invalid samples, duplicate
FirstFailure(u, c) ==
    IF ~HasFields(u) THEN "missing"
    ELSE IF ~SealedWith(c, "HOSPITAL_REGISTRATION", u.hospital_id) THEN "unregistered"
    ELSE IF u.accuracy < 0 \/ u.accuracy > Scale THEN "accuracy"
    ELSE IF u.samples_trained <= 0 THEN "samples"
    ELSE IF SealedUpdate(c, u.hospital_id, u.round) THEN "duplicate"
    ELSE "none"

ReasonOf(u, message) ==
    IF message = "Validation successful" THEN "none"
    ELSE IF message = "Invalid accuracy" THEN "accuracy"
    ELSE IF message = "Invalid samples count" THEN "samples"
    ELSE IF message = "already submitted update" THEN "duplicate"
    ELSE IF HasFields(u) /\ message = "Hospital " \o u.hospital_id \o " not registered" THEN "unregistered"
    ELSE IF \E f \in {"hospital_id", "round", "accuracy", "samples_trained"} :
               f \notin DOMAIN u /\ message = "Missing required field: " \o f THEN "missing"
    ELSE "other"

\* C13: execute returns is_valid = true iff all four fields are present, a
\* HOSPITAL_REGISTRATION of the hospital is sealed, 0 <= accuracy <= 1,
\* samples_trained > 0 and no MODEL_UPDATE of (hospital_id, round) is sealed;
\* otherwise the message names the first failing condition in the order
\* missing field, not registered, invalid accuracy, invalid samples, duplicate.
C13_VerdictByFirstFailure ==
    verdict # NoValue =>
        LET u == Value(verdict).update
            v == Value(verdict).result
        IN  /\ ~v.raised
            /\ v.is_valid = (FirstFailure(u, Seen) = "none")
            /\ ReasonOf(u, v.message) = FirstFailure(u, Seen)

\* C14: execute never raises: for every update record and every ledger
\* content reachable through add_transaction it returns a (bool, message) pair.
C14_ExecuteNeverRaises ==
    verdict # NoValue => ~Value(verdict).result.raised

\* C15: the validator treats a hospital as registered (goes past the
\* registration check) exactly when a HOSPITAL_REGISTRATION with its
\* hospital_id is in a sealed block; a registration in the pending pool does
\* not count.
C15_RegisteredIffSealed ==
    (verdict # NoValue /\ HasFields(Value(verdict).update)) =>
        LET u == Value(verdict).update
            v == Value(verdict).result
        IN  (~v.raised /\ ReasonOf(u, v.message) # "unregistered")
            = SealedWith(Seen, "HOSPITAL_REGISTRATION", u.hospital_id)

\* ---- rewards
\* (10 + accuracy*5 + bonus) * m as a fraction, m = 1.2 above 0.9 and 1 up to 0.9
Tokens(accuracy, bonus_n, bonus_d, m_n) ==
    Frac((10 * Scale * bonus_d + accuracy * 5 * bonus_d + bonus_n * Scale) * m_n,
         Scale * bonus_d * 10)

Expected(accuracy, bonus_n, bonus_d) ==
    Round2(Tokens(accuracy, bonus_n, bonus_d, IF accuracy > 900 THEN 12 ELSE 10))

\* C18: for total_samples > 0, RewardDistributor.execute returns round(t, 2),
\* t = 10 + accuracy*5 + (samples_contributed/total_samples)*5, times 1.2
\* when accuracy > 0.9 and as is when accuracy <= 0.9, the multiplier applied
\* after both bonuses; so accuracy 0.95 earns more than 0.85 at the same ratio.
C18_RewardFormula ==
    (payout # NoValue /\ Value(payout).total_samples > 0) =>
        LET c == Value(payout)
        IN  /\ ~c.result.raised
            /\ c.result.reward = Expected(c.accuracy, c.samples_contributed * 5, c.total_samples)
            /\ RewardDistributor_execute(c.hospital_id, 1, 950, c.samples_contributed, c.total_samples).reward
               > RewardDistributor_execute(c.hospital_id, 1, 850, c.samples_contributed, c.total_samples).reward

C18_Witness ==
    /\ payout # NoValue
    /\ Value(payout).accuracy = 950
    /\ Value(payout).samples_contributed = 100
    /\ Value(payout).total_samples = 400
    /\ Value(payout).result = [raised |-> FALSE, reward |-> 1920]

\* C19: RewardDistributor.execute with total_samples <= 0 returns normally,
\* with a sample bonus of 0: round((10 + accuracy*5) * m, 2).
C19_ZeroTotalReward ==
    (payout # NoValue /\ Value(payout).total_samples <= 0) =>
        /\ ~Value(payout).result.raised
        /\ Value(payout).result.reward = Expected(Value(payout).accuracy, 0, 1)

\* ---- coordinator errors and rewards
CoordinatorState ==
    <<round_updates, global_model_weights, global_metrics, current_round, emitted, started,
      chain, pending, accepted>>

\* C16: if decoding the encrypted weights fails, SubmitUpdate answers
\* success = false with an empty transaction hash and leaves every round
\* buffer, the global model, current_round and the ledger unchanged: no
\* MODEL_UPDATE is emitted and no aggregation is entered.
C16_DecodeFailureDiscards ==
    [][ (request' # NoValue /\ DecryptRaises(Value(request').encrypted_weights))
        => /\ response' # Raised
           /\ ~response'.success
           /\ response'.transaction_hash = <<>>
           /\ UNCHANGED CoordinatorState ]_vars

C16_Witness ==
    /\ request # NoValue
    /\ DecryptRaises(Value(request).encrypted_weights)
    /\ response # Raised /\ ~response.success
    /\ Len(Buffer(1)) = 1
    /\ Len(emitted) >= 2

\* the step entered aggregation for a round whose buffer sums to
\* total_samples = 0 or holds updates of differing layer counts
BadAggregationStep ==
    /\ started' # started
    /\ LET buf == round_updates'[started'[Len(started')]]
       IN  \/ TotalSamples(buf) = 0
           \/ \E i, j \in 1..Len(buf) : Len(buf[i].weights) # Len(buf[j].weights)

\* C17: when an aggregation precondition fails, the failure is reported
\* through the result, not as an exception leaving SubmitUpdate; the global
\* model and current_round stay as they were and no MODEL_AGGREGATION or
\* REWARD_DISTRIBUTION transaction is emitted.
C17_AggregationFailureReported ==
    [][ BadAggregationStep
        => /\ response' # Raised
           /\ ~response'.success
           /\ UNCHANGED <<global_model_weights, global_metrics, current_round>>
           /\ \A i \in Len(emitted) + 1 .. Len(emitted') :
                 emitted'[i].type \notin {"MODEL_AGGREGATION", "REWARD_DISTRIBUTION"} ]_vars

\* total_samples of the aggregation the reward transaction emitted[i] belongs to
RECURSIVE TotalOf(_)
TotalOf(i) ==
    IF emitted[i].type = "MODEL_AGGREGATION" THEN emitted[i].total_samples ELSE TotalOf(i - 1)

\* C20: for every participant of an aggregated round, the reward_tokens of its
\* REWARD_DISTRIBUTION transaction equal RewardDistributor.execute(hospital_id,
\* round, local_accuracy, samples_trained, total_samples), with the 1.2
\* multiplier above 0.9 and the rounding to 2 decimals (tokens in thousandths).
C20_RewardsByDistributor ==
    \A i \in 1..Len(emitted) :
        emitted[i].type = "REWARD_DISTRIBUTION" =>
            LET paid == RewardDistributor_execute(emitted[i].hospital_id, emitted[i].round,
                                                  emitted[i].accuracy,
                                                  emitted[i].samples_contributed, TotalOf(i))
            IN  ~paid.raised /\ emitted[i].reward_tokens = 10 * paid.reward

\* ---- aggregation arithmetic
\* g is the sample-weighted average of values over the updates of buf, to the
\* thousandth: sum(values[i] * samples_i) / sum(samples_i)
IsWeightedMean(g, values, buf) ==
    LET total == TotalSamples(buf)
        S == Sum([i \in 1..Len(buf) |-> values[i] * buf[i].samples_trained], Len(buf))
    IN  total * g <= S /\ S < total * (g + 1)

C21_Step ==
    (started' # started /\ ~BadAggregationStep) =>
        LET buf == round_updates'[started'[Len(started')]]
        IN  /\ response' # Raised
            /\ global_model_weights' # NoValue
            /\ Len(Value(global_model_weights')) = Len(buf[1].weights)
            /\ \A l \in 1..Len(buf[1].weights) :
                  IsWeightedMean(Value(global_model_weights')[l],
                                 [i \in 1..Len(buf) |-> buf[i].weights[l]], buf)
            /\ IsWeightedMean(global_metrics'.accuracy,
                              [i \in 1..Len(buf) |-> buf[i].local_accuracy], buf)
            /\ IsWeightedMean(global_metrics'.loss,
                              [i \in 1..Len(buf) |-> buf[i].local_loss], buf)
            /\ global_metrics'.total_samples = TotalSamples(buf)

\* C21: an aggregation of round r sets every layer l of the global weights to
\* the sum over the round's buffered updates of weight_i[l] * samples_i /
\* total_samples, total_samples the sum of samples_i, and global accuracy and
\* loss to the same sample-weighted average of the local metrics: weights
\* 2.0 and 4.0 with 100 and 300 samples give 3.5, accuracies 0.85 and 0.90
\* with 1500 samples each give 0.875.
C21_WeightedAverage == [][C21_Step]_vars

C21_Witness ==
    /\ current_round = 1
    /\ global_model_weights = Some(<<3500>>)
    /\ global_metrics.total_samples = 400
    /\ \E i \in 1..Len(emitted) :
          /\ emitted[i].type = "MODEL_AGGREGATION"
          /\ emitted[i].round = 2
          /\ emitted[i].global_accuracy = 875
          /\ emitted[i].total_samples = 3000

\* ---- rounds
\* C22: once round r has reached quorum and aggregated, the coordinator's
\* buffer for r holds no entries after the aggregating SubmitUpdate returned,
\* while the round's updates stay recorded as MODEL_UPDATE transactions.
C22_BufferCleared ==
    \A r \in Rounds :
        EmittedOf("MODEL_AGGREGATION", r) # <<>>
        => /\ Buffer(r) = <<>>
           /\ Len(EmittedOf("MODEL_UPDATE", r)) >= MinClients

\* C23: current_round never decreases: every SubmitUpdate call, also one that
\* brings a round lower than an already aggregated one to quorum, leaves
\* current_round greater than or equal to the value it held before.
C23_RoundNeverDecreases == [][current_round' >= current_round]_vars

\* ---- registration
Registrations == SelectSeq(emitted, LAMBDA tx : tx.type = "HOSPITAL_REGISTRATION")

C25_Step ==
    (Len(emitted') > Len(emitted) /\ emitted'[Len(emitted) + 1].type = "HOSPITAL_REGISTRATION") =>
        LET h == emitted'[Len(emitted) + 1].hospital_id
        IN  /\ Len(emitted') = Len(emitted) + 1
            /\ DOMAIN registered_hospitals' = DOMAIN registered_hospitals \cup {h}
            /\ registered_hospitals'[h].hospital_id = h
            /\ response' = [success |-> TRUE, public_key |-> public_key_str]
            /\ ("public_key" \in DOMAIN response => response'.public_key = response.public_key)

\* C25: registering the same hospital_id k >= 1 times leaves exactly one
\* record for that id, so connected_hospitals counts the distinct
\* hospital_ids registered, while every call emits one HOSPITAL_REGISTRATION
\* transaction and answers success with the coordinator's public key, the
\* same key on every call.
C25_RegisterIdempotent ==
    /\ [](GetTrainingStatus.connected_hospitals
           = Cardinality({ Registrations[i].hospital_id : i \in 1..Len(Registrations) }))
    /\ [](\A h \in DOMAIN registered_hospitals : registered_hospitals[h].hospital_id = h)
    /\ [][C25_Step]_vars

C25_Witness ==
    /\ Len(SelectSeq(Registrations, LAMBDA tx : tx.hospital_id = "hospital_1")) >= 2
    /\ Len(SelectSeq(Registrations, LAMBDA tx : tx.hospital_id = "hospital_2")) = 1
    /\ GetTrainingStatus.connected_hospitals = 2
    /\ response = [success |-> TRUE, public_key |-> public_key_str]

\* ---- global model state
\* the answer carries the values of one aggregation that ran to the end, or
\* the initial ones
FromOneAggregation(op, a) ==
    IF op = "GetGlobalModel"
    THEN a = NotAvailable \/ a \in computed
    ELSE \/ a.current_round = 0 /\ a.global_accuracy = 0 /\ a.global_loss = 0
         \/ \E c \in computed : /\ a.current_round = c.round_number
                                 /\ a.global_accuracy = c.global_accuracy
                                 /\ a.global_loss = c.global_loss

\* C24: the global model state (round_number, weights, global_accuracy,
\* global_loss, total_samples) is replaced as a unit: every GetGlobalModel or
\* GetTrainingStatus answer, also one served while an aggregation is in
\* progress on another worker or after an aggregation that failed midway,
\* carries values that all belong to the same completed aggregation, or all
\* to the initial state.
C24_ReplacedAsUnit ==
    served # NoValue => FromOneAggregation(Value(served).op, Value(served).answer)

\* ---- leaderboard
\* the REWARD_DISTRIBUTION transactions of hospital h in sealed blocks
SealedRewards(h) ==
    SelectSeq(Sealed(chain), LAMBDA tx : GetIs(tx, "type", "REWARD_DISTRIBUTION")
                                        /\ GetIs(tx, "hospital_id", h))

RECURSIVE TokensOf(_)
TokensOf(txs) ==
    IF txs = <<>> THEN 0
    ELSE TokensOf(Tail(txs)) + (IF "reward_tokens" \in DOMAIN Head(txs) THEN Head(txs).reward_tokens ELSE 0)

\* C26: get_leaderboard returns exactly one entry per hospital_id that has a
\* REWARD_DISTRIBUTION transaction in a sealed block, with total_rewards the
\* sum of that hospital's sealed reward_tokens (the value of
\* get_hospital_rewards) and rounds_participated the number of those
\* transactions, ordered by non-increasing total_rewards (totals 30.0, 45.5,
\* 12.0 come out as 45.5, 30.0, 12.0).
C26_Leaderboard ==
    LET board == get_leaderboard(chain)
    IN  /\ { board[i].hospital_id : i \in 1..Len(board) } = { h \in Hospitals : SealedRewards(h) # <<>> }
        /\ \A i, j \in 1..Len(board) : board[i].hospital_id = board[j].hospital_id => i = j
        /\ \A i \in 1..Len(board) :
              /\ board[i].total_rewards = TokensOf(SealedRewards(board[i].hospital_id))
              /\ board[i].total_rewards = get_hospital_rewards(chain, board[i].hospital_id)
              /\ board[i].rounds_participated = Len(SealedRewards(board[i].hospital_id))
        /\ \A i \in 1..Len(board) - 1 : board[i].total_rewards >= board[i + 1].total_rewards

C26_Witness ==
    LET board == get_leaderboard(chain)
    IN  /\ Len(board) = 3
        /\ [i \in 1..3 |-> board[i].hospital_id] = << "hospital_2", "hospital_1", "hospital_3" >>
        /\ [i \in 1..3 |-> board[i].total_rewards] = << 45500, 30000, 12000 >>
        /\ board[2].rounds_participated = 2
        /\ get_transactions_by_type(chain, "REWARD_DISTRIBUTION")[1].hospital_id = "hospital_1"

\* ---- audit trail
\* arguments of get_audit_trail
HospitalFilters == {None, "", "hospital_1", "hospital_2"}

TypeFilters == {None, "MODEL_UPDATE", "HOSPITAL_REGISTRATION", "GENESIS"}

Limits == {0, 1, 2, 100}

\* transaction j of block b with the tags of its block
Tagged(b, j) ==
    [k \in DOMAIN chain[b].transactions[j] \cup {"block_index", "block_hash", "block_timestamp"} |->
        CASE k = "block_index" -> chain[b].index
          [] k = "block_hash" -> chain[b].hash
          [] k = "block_timestamp" -> chain[b].timestamp
          [] OTHER -> chain[b].transactions[j][k]]

\* the places of the sealed transactions that match the filters supplied
Matching(h, t) ==
    { p \in UNION { { <<b, j>> : j \in 1..Len(chain[b].transactions) } : b \in Blocks } :
        /\ (h \notin {None, ""} => GetIs(chain[p[1]].transactions[p[2]], "hospital_id", h))
        /\ (t \notin {None, ""} => GetIs(chain[p[1]].transactions[p[2]], "type", t)) }

AuditTrailOf(trail, h, t, limit) ==
    LET M == Matching(h, t)
    IN  /\ Len(trail) = (IF Cardinality(M) < limit THEN Cardinality(M) ELSE limit)
        /\ \A k \in 1..Len(trail) :
              /\ \E p \in M : trail[k] = Tagged(p[1], p[2])
              /\ Count(trail, trail[k]) <= Cardinality({ p \in M : Tagged(p[1], p[2]) = trail[k] })
        /\ \A k \in 1..Len(trail) - 1 : trail[k].timestamp >= trail[k + 1].timestamp
        /\ trail # <<>> =>
              \A p \in M : \/ \E k \in 1..Len(trail) : trail[k] = Tagged(p[1], p[2])
                            \/ Tagged(p[1], p[2]).timestamp <= trail[Len(trail)].timestamp

\* C27: get_audit_trail(hospital_id, event_type, limit) returns exactly the
\* transactions of sealed blocks (never pending ones) that match every
\* supplied filter, each tagged with the index and hash of its block, in
\* non-increasing timestamp order, truncated to the first `limit` entries, so
\* for limit >= 0 the result never has more than `limit` entries.
C27_AuditTrail ==
    \A h \in HospitalFilters : \A t \in TypeFilters : \A limit \in Limits :
        LET trail == get_audit_trail(chain, h, t, limit)
        IN  AuditTrailOf(trail, h, t, limit) /\ Len(trail) <= limit

C27_Witness ==
    LET trail == get_audit_trail(chain, "hospital_1", None, 2)
    IN  /\ Cardinality(Matching("hospital_1", None)) >= 3
        /\ Len(trail) = 2
        /\ trail[1].timestamp > trail[2].timestamp
        /\ trail[1].block_index > 1
        /\ \E i \in 1..Len(pending) : GetIs(pending[i], "hospital_id", "hospital_1")

\* ---- training summary
SealedOfType(type) == SelectSeq(Sealed(chain), LAMBDA tx : GetIs(tx, "type", type))

\* C28: in every reachable ledger state get_training_summary reports
\* total_rounds equal to the number of MODEL_AGGREGATION transactions in
\* sealed blocks, and latest_round / latest_global_accuracy equal to those of
\* the most recently sealed MODEL_AGGREGATION.
C28_TrainingSummary ==
    LET summary == get_training_summary(chain)
        aggregations == SealedOfType("MODEL_AGGREGATION")
    IN  /\ ~summary.raised
        /\ summary.total_rounds = Len(aggregations)
        /\ aggregations # <<>> =>
              /\ "latest_round" \in DOMAIN summary
              /\ summary.latest_round = aggregations[Len(aggregations)].round
              /\ summary.latest_global_accuracy = aggregations[Len(aggregations)].global_accuracy

\* ---- append-only chain and read operations
\* C29: the chain is append-only: no add_transaction,
\* mine_pending_transactions or query call changes or removes a block once
\* appended; the earlier chain is a prefix of the current chain with
\* identical index, timestamp, transactions, previous_hash, nonce and hash in
\* every block.
C29_AppendOnly ==
    [][ /\ Len(chain') >= Len(chain)
        /\ SubSeq(chain', 1, Len(chain)) = chain ]_vars

C29_Witness ==
    /\ Len(chain) >= 3
    /\ answer # NoValue
    /\ Len(Value(answer).ledger[1]) = 2
    /\ Value(answer).ledger[1] = SubSeq(chain, 1, 2)

\* the step is a call of a read operation
QueryStep ==
    /\ answer' # NoValue
    /\ \/ answer = NoValue
       \/ Value(answer').call # Value(answer).call
       \/ Value(answer').again # Value(answer).again
       \/ Value(answer').ledger # Value(answer).ledger
       \/ Value(answer').result # Value(answer).result

C30_Step ==
    QueryStep =>
        /\ UNCHANGED <<chain, pending>>
        /\ Value(answer').again => Value(answer').result = Value(answer).result

HoldsKeypair ==
    /\ codec.public_key # NoValue
    /\ codec.private_key # NoValue
    /\ Value(codec.public_key) = PublicOf(Value(codec.private_key))

\* C31: for every list of weight arrays w and a codec holding the keypair,
\* decrypt_weights(encrypt_weights(w)) returns a list of the same length whose
\* arrays have the same shapes and exactly the same values as w.
C31_RoundTrip ==
    (codec.out # NoValue /\ HoldsKeypair) =>
        LET o == Value(codec.out)
        IN  /\ ~o.encrypted.raised
            /\ ~o.decrypted.raised
            /\ Len(o.decrypted.weights) = Len(o.weights)
            /\ \A i \in 1..Len(o.weights) :
                  /\ o.decrypted.weights[i].shape = o.weights[i].shape
                  /\ o.decrypted.weights[i].data = o.weights[i].data
                  /\ o.decrypted.weights[i].dtype = o.weights[i].dtype

\* a matrix and a layer longer than the encrypted sample came back
C31_Witness ==
    /\ codec.out # NoValue
    /\ HoldsKeypair
    /\ Len(Value(codec.out).weights) = 2
    /\ Value(codec.out).weights[1].shape = <<2, 2>>
    /\ Value(codec.out).weights[2].shape = << SampleCap + 1 >>
    /\ ~Value(codec.out).decrypted.raised
    /\ Value(codec.out).decrypted.weights[1] = Array("float64", <<2, 2>>, <<1, 2, 3, 0>>)
    /\ Len(Value(codec.out).decrypted.decrypted_sample[2]) = SampleCap
    /\ Value(codec.out).decrypted.decrypted_sample[1] = <<1, 2, 3, 0>>


\* ------------------------------------------------ C32
\* a step of mine_pending_transactions that appends to the chain: one block,
\* built from the whole pool on the latest block, its proof-of-work done, the
\* pool still in place
C32_AppendStep ==
    Len(chain') > Len(chain) =>
        LET new_block == chain'[Len(chain')]
        IN  /\ Len(chain') = Len(chain) + 1
            /\ SubSeq(chain', 1, Len(chain)) = chain
            /\ pending # <<>>
            /\ new_block.index = Len(chain)
            /\ new_block.previous_hash = get_latest_block(chain).hash
            /\ new_block.transactions = pending
            /\ HashIntact(new_block)
            /\ MeetsTarget(new_block.hash, difficulty)
            /\ pending' = pending

\* a step that takes transactions out of the pool: it empties the pool, after
\* the block holding them, with its proof-of-work, was appended
C32_ClearStep ==
    (pending # <<>> /\ Len(pending') < Len(pending)) =>
        /\ pending' = <<>>
        /\ chain' = chain
        /\ Len(chain) > 1
        /\ get_latest_block(chain).transactions = pending
        /\ HashIntact(get_latest_block(chain))
        /\ MeetsTarget(get_latest_block(chain).hash, difficulty)
        /\ \E w \in Handlers : wpc[w] = "clear" /\ wpc'[w] = "idle"

\* C32: mine_pending_transactions with a non-empty pool appends exactly one
\* block whose index is the chain length before the call, whose previous_hash
\* is the hash of the previously latest block and whose transactions are the
\* pool in pool order; the pool is emptied, and only after the proof-of-work
\* hash was found; and chain[i].index == i for every block in every state.
C32_MineAppendsOne ==
    /\ [](\A i \in 1..Len(chain) : chain[i].index = i - 1)
    /\ [][C32_AppendStep /\ C32_ClearStep]_vars

\* a handler has just emptied the pool whose three transactions are in the
\* second block it appended
C32_Witness ==
    /\ Len(chain) = 3
    /\ pending = <<>>
    /\ Len(chain[3].transactions) = 3
    /\ chain[3].index = 2
    /\ chain[3].previous_hash = chain[2].hash
    /\ Quiet


\* ------------------------------------------------ C33
\* a mining call that found the pool empty
C33_Step ==
    (mined' # NoValue /\ mined' # mined /\ pending = <<>>) =>
        /\ chain' = chain
        /\ pending' = <<>>
        /\ get_latest_block(chain').hash = get_latest_block(chain).hash
        /\ clock' = clock
        /\ Value(mined').via = "mine_block" => ~Value(mined').response.success

\* C33: mine_pending_transactions called with an empty pending pool is a
\* no-op: the chain, the pool and the latest block hash are unchanged; no
\* empty block is ever appended, so every block after genesis holds at least
\* one transaction.
C33_EmptyPoolNoOp ==
    /\ [](pending = <<>> => Mined(Ledger, difficulty) = Ledger)
    /\ [][C33_Step]_vars
    /\ [](\A i \in 2..Len(chain) : Len(chain[i].transactions) >= 1)

\* the last mining call found an empty pool behind a sealed block and left
\* the ledger as it was
C33_Witness ==
    /\ mined # NoValue
    /\ Value(mined).pending = <<>>
    /\ Len(Value(mined).chain) = 2
    /\ chain = Value(mined).chain
    /\ pending = <<>>
    /\ Value(mined).via = "mine_block"
    /\ Value(mined).response = [success |-> FALSE, block |-> NoValue]


\* ------------------------------------------------ C34
\* a SubmitUpdate whose append brought its round's buffer to min_clients
QuorumStep ==
    /\ SubmitStep
    /\ Len(Buffer(emitted'[Len(emitted) + 1].round)) = MinClients - 1
    /\ Len(round_updates'[emitted'[Len(emitted) + 1].round]) = MinClients

\* what the claim says of such a call
EmittedInOrder ==
    LET r == emitted'[Len(emitted) + 1].round
        buffer == round_updates'[r]
        n == Len(buffer)
        new == SubSeq(emitted', Len(emitted) + 1, Len(emitted'))
    IN  /\ Len(new) = 2 + n
        /\ new[1].type = "MODEL_UPDATE"
        /\ new[1].hospital_id = buffer[n].hospital_id
        /\ new[2].type = "MODEL_AGGREGATION"
        /\ new[2].round = r
        /\ new[2].participants = n
        /\ \A i \in 1..n :
              /\ new[2 + i].type = "REWARD_DISTRIBUTION"
              /\ new[2 + i].round = r
              /\ new[2 + i].hospital_id = buffer[i].hospital_id
              /\ new[2 + i].samples_contributed = buffer[i].samples_trained
        /\ response' # Raised
        /\ response'.current_round = r
        /\ current_round' = r

\* C34: the submission that brings round r to quorum with n buffered updates
\* makes the coordinator emit that submission's MODEL_UPDATE, then exactly one
\* MODEL_AGGREGATION for r with participants = n, then exactly n
\* REWARD_DISTRIBUTION transactions for r, one per buffered update in buffer
\* order; when SubmitUpdate returns, current_round == r.
C34_EmissionOrder == [][QuorumStep => EmittedInOrder]_vars



\* ------------------------------------------------ C35
\* a step inside one mine_block call
C35_Step ==
    (miner # NoValue /\ miner' # NoValue /\ Value(miner).pc = "while") =>
        /\ Value(miner').entry = Value(miner).entry
        /\ \/ Value(miner').block = Value(miner).block
           \/ /\ Value(miner').block.nonce = Value(miner).block.nonce + 1
              /\ Value(miner').pc = "while"
              /\ ~MeetsTarget(Value(miner).block.hash, Value(miner).difficulty)

C35_Returned ==
    (miner # NoValue /\ Value(miner).pc = "returned") =>
        LET m == Value(miner)
        IN  /\ m.block.hash = calculate_hash(m.block)
            /\ MeetsTarget(m.block.hash, m.difficulty)
            /\ m.block.nonce >= m.entry.nonce
            /\ \A n \in m.entry.nonce..(m.block.nonce - 1) :
                  ~MeetsTarget(NonceDigest(BaseDigest(m.entry), n), m.difficulty)
            /\ MeetsTarget(m.entry.hash, m.difficulty) => m.block = m.entry
            /\ m.block = mine_block(m.entry, m.difficulty)

\* C35: Block.mine_block returns only in a state where block.hash equals
\* calculate_hash() for the final nonce and starts with `difficulty` zero hex
\* digits; the nonce only ever increases by 1 per attempt; the call returns at
\* once without changing the nonce when the initial hash already qualifies;
\* and, provided some nonce yields a qualifying hash, mining eventually
\* terminates.
C35_MineBlock ==
    /\ []C35_Returned
    /\ [][C35_Step]_vars
    /\ (miner # NoValue /\ Value(miner).pc = "while"
           /\ Qualifies(Value(miner).entry, Value(miner).difficulty))
       ~> (miner # NoValue /\ Value(miner).pc = "returned")

\* a call returned after more than one attempt
C35_Witness ==
    /\ miner # NoValue
    /\ Value(miner).pc = "returned"
    /\ Value(miner).difficulty = 1
    /\ Value(miner).block.nonce > Value(miner).entry.nonce + 1
    /\ Value(miner).block.hash # Value(miner).entry.hash


\* ------------------------------------------------ C36
\* C36: in every state reachable from a fresh ledger by sequential
\* add_transaction and mine_pending_transactions calls, the transactions of
\* blocks 1..n in block order, followed by the pending pool, are the accepted
\* transactions in admission order (none lost, duplicated or reordered), and
\* every block after genesis holds between 1 and 5 transactions.
C36_SealedThenPending ==
    /\ Sealed(chain) \o pending = accepted
    /\ \A i \in 2..Len(chain) :
          /\ Len(chain[i].transactions) >= 1
          /\ Len(chain[i].transactions) <= BatchThreshold

\* six transactions were admitted: two sealed by one mining call, three by
\* the next, the last still in the pool
C36_Witness ==
    /\ Len(accepted) = 6
    /\ Len(chain) = 3
    /\ Len(chain[2].transactions) = 2
    /\ Len(chain[3].transactions) = 3
    /\ Len(pending) = 1
    /\ accepted[1] # accepted[2]
    /\ accepted[6] # accepted[5]


\* ------------------------------------------------ C37
\* the k-th accepted transaction is in a sealed block
SealedUpTo(k) ==
    /\ Len(Sealed(chain)) >= k
    /\ Sealed(chain)[k] = accepted[k]

\* a step that seals: a mine_pending_transactions call on a non-empty pool, or
\* the add_transaction that brings the pool to 5; it seals the whole pool
C37_SealStep ==
    Len(Sealed(chain')) # Len(Sealed(chain)) =>
        /\ pending' = <<>>
        /\ Sealed(chain') = accepted'
        /\ \/ accepted' = accepted /\ pending # <<>>
           \/ Len(accepted') = Len(accepted) + 1 /\ Len(pending) + 1 = BatchThreshold

\* the add_transaction that brings the pool to 5 seals all of it
C37_FifthStep ==
    (Len(accepted') = Len(accepted) + 1 /\ Len(pending) + 1 = BatchThreshold) =>
        /\ pending' = <<>>
        /\ Sealed(chain') = accepted'

\* C37: every transaction accepted by add_transaction is eventually sealed
\* into a block provided that, after its admission, mine_pending_transactions
\* is eventually called or enough further transactions are admitted to bring
\* the pool to 5; the ledger has no other sealing trigger.
C37_EventuallySealed ==
    /\ \A k \in 1..MaxMined : (Len(accepted) >= k) ~> SealedUpTo(k)
    /\ [][C37_SealStep /\ C37_FifthStep]_vars

\* the transactions admitted after a first block was sealed are sealed by a
\* later mining call
C37_Witness ==
    /\ Len(accepted) = MaxMined
    /\ Len(chain) = 3
    /\ Len(chain[2].transactions) = 2
    /\ SealedUpTo(MaxMined)
    /\ pending = <<>>


\* ------------------------------------------------ C38
\* a SubmitUpdate of some worker thread is answered with success
AnsweredStep(t) ==
    /\ tpc[t] = "log"
    /\ tpc'[t] = "idle"
    /\ response' # Raised
    /\ response'.success

\* C38: under concurrent SubmitUpdate calls for the same round, every
\* submission answered with success has its update in that round's buffer at
\* the time of the answer, and the buffer size equals the number of successful
\* submissions for the round: no update is lost by the check-then-create of
\* the round's list or by concurrent appends.
C38_NoUpdateLost ==
    /\ [][\A t \in Workers :
            AnsweredStep(t) =>
                \E i \in 1..Len(round_updates'[tloc[t].round]) :
                    round_updates'[tloc[t].round][i] = tloc[t].update]_vars
    /\ []((\A t \in Workers : tpc[t] = "idle") =>
            \A r \in DOMAIN succeeded : Len(Buffer(r)) = Len(succeeded[r]))


\* ------------------------------------------------ C39
\* a MODEL_UPDATE transaction for update u of round r is on the ledger,
\* sealed or pending
OnLedger(u, r) ==
    \E j \in 1..Len(Sealed(chain) \o pending) :
        LET tx == (Sealed(chain) \o pending)[j]
        IN  /\ tx.type = "MODEL_UPDATE"
            /\ tx.hospital_id = u.hospital_id
            /\ tx.round = r
            /\ tx.samples_trained = u.samples_trained

\* a step in which a MODEL_UPDATE was handed to log_transaction and the ledger
\* accepted nothing for it
WriteFailed ==
    /\ Len(emitted') > Len(emitted)
    /\ emitted'[Len(emitted) + 1].type = "MODEL_UPDATE"
    /\ IF Len(accepted') = Len(accepted) THEN TRUE
       ELSE accepted'[Len(accepted) + 1].type # "MODEL_UPDATE"

\* C39: every update held in a round buffer (and so every update that took
\* part in an aggregation) has a matching MODEL_UPDATE transaction accepted by
\* the ledger, pending or sealed, also when the ledger service is unreachable
\* or answers with an error: an update whose ledger write failed is not
\* counted toward the quorum and SubmitUpdate does not answer success for it.
C39_BufferedIsLogged ==
    /\ [](\A r \in DOMAIN round_updates :
            \A i \in 1..Len(round_updates[r]) : OnLedger(round_updates[r][i], r))
    /\ [][WriteFailed =>
            /\ round_updates' = round_updates
            /\ started' = started
            /\ IF response' = Raised THEN TRUE ELSE ~response'.success]_vars


\* ------------------------------------------------ C40
\* C40: for every accuracy, samples and total_samples > 0,
\* CoreChainStrategy._calculate_reward(accuracy, samples, total_samples)
\* returns the same value as RewardDistributor.execute(hospital_id, round,
\* accuracy, samples, total_samples): the reward the Flower aggregation path
\* writes equals the one the smart contract computes.
C40_SameReward ==
    (payout # NoValue) =>
        LET p == Value(payout)
        IN  p.total_samples > 0 =>
                /\ ~p.result.raised
                /\ p.flower.reward_tokens = p.result.reward

\* accuracy 0.95 with 1 of 3 examples: both paths pay 19.70 after the 1.2
\* quality multiplier ((10 + 4.75 + 1.6667) * 1.2 = 19.70)
C40_Witness ==
    /\ payout # NoValue
    /\ Value(payout).accuracy = 950
    /\ Value(payout).samples_contributed = 1
    /\ Value(payout).total_samples = 3
    /\ Value(payout).flower.reward_tokens = 1970
    /\ Value(payout).result = [raised |-> FALSE, reward |-> 1970]

====
